---- MODULE Spec2Model ----
(***************************************************************************)
(* vite-plugin-sri4: the HTML rewriter (src/src/html-parser.js) and the    *)
(* integrity calculator with its network helpers                           *)
(* (src/src/network-utils.js, which also holds integrity-calculator.js).   *)
(*                                                                         *)
(* Text is a sequence of one-character strings.  Offsets are 0-based as in *)
(* JavaScript; At(s, i) is s[i] of the source.                             *)
(***************************************************************************)
EXTENDS Integers, Sequences, FiniteSets, TLC

----------------------------------------------------------------------------
(* JavaScript string primitives used by the source *)

Min(a, b) == IF a < b THEN a ELSE b
Max(a, b) == IF a > b THEN a ELSE b

At(s, i) == s[i + 1]

\* String.prototype.slice(a, b) for a >= 0
slice(s, a, b) == SubSeq(s, Min(a, Len(s)) + 1, Min(b, Len(s)))

\* String.prototype.substring(a)
substring(s, a) == SubSeq(s, Min(a, Len(s)) + 1, Len(s))

\* the literal lit occurs in s at offset i
AtLit(s, i, lit) ==
    /\ i >= 0
    /\ i + Len(lit) <= Len(s)
    /\ \A k \in 1..Len(lit) : s[i + k] = lit[k]

startsWith(s, lit) == AtLit(s, 0, lit)
endsWith(s, lit) == AtLit(s, Len(s) - Len(lit), lit)
includes(s, lit) == \E i \in 0..(Len(s) - Len(lit)) : AtLit(s, i, lit)

\* the offset of the first character of s at or after from that is in chars,
\* Len(s) if there is none; the text is searched sixteen characters at a
\* time, which keeps the recursion shallow
RECURSIVE indexOfSet(_, _, _)
indexOfSet(s, from, chars) ==
    IF from >= Len(s) THEN Len(s)
    ELSE LET last == Min(from + 16, Len(s)) - 1
             hits == {k \in from..last : At(s, k) \in chars}
         IN  IF hits = {} THEN indexOfSet(s, last + 1, chars)
             ELSE CHOOSE k \in hits : \A h \in hits : k <= h

----------------------------------------------------------------------------
(* Regular-expression character classes *)

Lower == {"a", "b", "c", "d", "e", "f", "g", "h", "i", "j", "k", "l", "m",
          "n", "o", "p", "q", "r", "s", "t", "u", "v", "w", "x", "y", "z"}
Upper == {"A", "B", "C", "D", "E", "F", "G", "H", "I", "J", "K", "L", "M",
          "N", "O", "P", "Q", "R", "S", "T", "U", "V", "W", "X", "Y", "Z"}
Digit == {"0", "1", "2", "3", "4", "5", "6", "7", "8", "9"}

\* \w
WordChar == Lower \cup Upper \cup Digit \cup {"_"}
\* \s
Space == {" ", "\n", "\t"}
\* ["']
Quote == {"\"", "'"}

\* \b at offset i of s
WordBoundary(s, i) ==
    LET before == i >= 1 /\ i - 1 < Len(s) /\ At(s, i - 1) \in WordChar
        after  == i >= 0 /\ i < Len(s) /\ At(s, i) \in WordChar
    IN  before # after

\* \s* from offset i: the offset of the first character that is not a space
RECURSIVE SkipSpace(_, _)
SkipSpace(s, i) ==
    IF i < Len(s) /\ At(s, i) \in Space THEN SkipSpace(s, i + 1) ELSE i

(* name\s*=\s*["']([^"']+)["'] at offset i: the offsets of the value and of
   the character after the closing quote, or none.  [^"']+ cannot step over
   a quote, so the value ends at the first quote after its start. *)
NoAttr == [ok |-> FALSE, from |-> 0, to |-> 0, next |-> 0]

\* ([^"']+)["'] : the value from offset q + 1 to the quote at offset e
AttrValue(s, q, e) ==
    IF e >= Len(s) \/ e = q + 1 THEN NoAttr
    ELSE [ok |-> TRUE, from |-> q + 1, to |-> e, next |-> e + 1]

\* ["'] at offset q, and the value after it
AttrQuote(s, q) ==
    IF ~(q < Len(s) /\ At(s, q) \in Quote) THEN NoAttr
    ELSE AttrValue(s, q, indexOfSet(s, q + 1, Quote))

\* = at offset eq, \s*, and the quoted value
AttrEquals(s, eq) ==
    IF ~(eq < Len(s) /\ At(s, eq) = "=") THEN NoAttr
    ELSE AttrQuote(s, SkipSpace(s, eq + 1))

AttrAt(s, i, name) ==
    IF ~AtLit(s, i, name) THEN NoAttr
    ELSE AttrEquals(s, SkipSpace(s, i + Len(name)))

\* the least element of a non-empty set of offsets (lazy quantifier: the
\* first alternative that lets the rest of the pattern match)
Least(S) == CHOOSE x \in S : \A y \in S : x <= y

NoMatch == [ok |-> FALSE, index |-> 0, end |-> 0, url |-> <<>>]

----------------------------------------------------------------------------
(* HTML_PATTERNS *)

ScriptEndOffset == 10
LinkEndOffset == 1

(* /<script\b[^>]*?\bsrc\s*=\s*["']([^"']+)["'][^>]*><\/script>/ anchored at
   offset i.  [^>]*? stops before the first '>' after "<script"; among the
   offsets it can reach, the match uses the first one where the rest of the
   pattern matches. *)

\* a tail of the script pattern that would take a tag without its
\* closing tag, [^>]*> alone
ScriptCloseUnterminated(s, i, a, g) ==
    IF g < Len(s)
    THEN [ok |-> TRUE, index |-> i, end |-> g + 1, url |-> slice(s, a.from, a.to)]
    ELSE NoMatch

\* [^>]*><\/script> after the src attribute a: g is the offset of the '>'
ScriptClose(s, i, a, g) ==
    IF AtLit(s, g, <<">", "<", "/", "s", "c", "r", "i", "p", "t", ">">>)
    THEN [ok |-> TRUE, index |-> i, end |-> g + 10, url |-> slice(s, a.from, a.to)]
    ELSE NoMatch

\* \bsrc... at offset j, a being what AttrAt found there
ScriptSrc(s, i, j, a) ==
    IF a.ok /\ WordBoundary(s, j)
    THEN ScriptClose(s, i, a, indexOfSet(s, a.next, {">"}))
    ELSE NoMatch

ScriptSrcAt(s, i, j) == ScriptSrc(s, i, j, AttrAt(s, j, <<"s", "r", "c">>))

\* the match for the first of the offsets J where the rest matches
ScriptFirst(s, i, J) ==
    IF J = {} THEN NoMatch ELSE ScriptSrcAt(s, i, Least(J))

ScriptMatchAt(s, i) ==
    IF ~(AtLit(s, i, <<"<", "s", "c", "r", "i", "p", "t">>) /\ WordBoundary(s, i + 7)) THEN NoMatch
    ELSE ScriptFirst(s, i,
            {j \in (i + 7)..(indexOfSet(s, i + 7, {">"}) - 1) :
                At(s, j) = "s" /\ ScriptSrcAt(s, i, j).ok})

(* /<link\b[^>]*?\brel\s*=\s*["']REL["'][^>]*?\bhref\s*=\s*["']([^"']+)["'][^>]*>/
   anchored at offset i, REL being stylesheet or modulepreload. *)

\* [^>]*> after the href attribute a: g is the offset of the '>'
LinkClose(s, i, a, g) ==
    IF g < Len(s)
    THEN [ok |-> TRUE, index |-> i, end |-> g + 1, url |-> slice(s, a.from, a.to)]
    ELSE NoMatch

\* \bhref... at offset k, a being what AttrAt found there
LinkHref(s, i, k, a) ==
    IF a.ok /\ WordBoundary(s, k)
    THEN LinkClose(s, i, a, indexOfSet(s, a.next, {">"}))
    ELSE NoMatch

LinkHrefAt(s, i, k) == LinkHref(s, i, k, AttrAt(s, k, <<"h", "r", "e", "f">>))

LinkFirstHref(s, i, K) ==
    IF K = {} THEN NoMatch ELSE LinkHrefAt(s, i, Least(K))

\* \brel... at offset j, r being what AttrAt found there, and the second
\* [^>]*? up to the first href where the rest matches
LinkRel(s, i, j, rel, r) ==
    IF r.ok /\ WordBoundary(s, j) /\ slice(s, r.from, r.to) = rel
    THEN LinkFirstHref(s, i,
            {k \in r.next..(indexOfSet(s, r.next, {">"}) - 1) :
                At(s, k) = "h" /\ LinkHrefAt(s, i, k).ok})
    ELSE NoMatch

LinkRelAt(s, i, j, rel) == LinkRel(s, i, j, rel, AttrAt(s, j, <<"r", "e", "l">>))

LinkFirstRel(s, i, rel, J) ==
    IF J = {} THEN NoMatch ELSE LinkRelAt(s, i, Least(J), rel)

LinkMatchAt(s, i, rel) ==
    IF ~(AtLit(s, i, <<"<", "l", "i", "n", "k">>) /\ WordBoundary(s, i + 5)) THEN NoMatch
    ELSE LinkFirstRel(s, i, rel,
            {j \in (i + 5)..(indexOfSet(s, i + 5, {">"}) - 1) :
                At(s, j) = "r" /\ LinkRelAt(s, i, j, rel).ok})

PatternNames == <<"script", "stylesheet", "modulepreload">>

HTML_PATTERNS(name) ==
    IF name = "script"
    THEN [endOffset |-> ScriptEndOffset]
    ELSE [endOffset |-> LinkEndOffset]

MatchAt(s, i, name) ==
    IF name = "script" THEN ScriptMatchAt(s, i)
    ELSE LinkMatchAt(s, i, IF name = "stylesheet" THEN <<"s", "t", "y", "l", "e", "s", "h", "e", "e", "t">>
                           ELSE <<"m", "o", "d", "u", "l", "e", "p", "r", "e", "l", "o", "a", "d">>)

\* html.matchAll(regex): leftmost matches, each search resuming at the end
\* of the previous match.  found maps the offsets where the pattern matches
\* to the match there.
RECURSIVE matchFrom(_, _)
matchFrom(found, from) ==
    LET later == {i \in DOMAIN found : i >= from}
    IN  IF later = {} THEN <<>>
        ELSE LET m == found[Least(later)]
             IN  <<m>> \o matchFrom(found, m.end)

\* the matches among tried, which maps offsets to what the pattern finds there
Leftmost(tried) ==
    matchFrom([i \in {j \in DOMAIN tried : tried[j].ok} |-> tried[i]], 0)

\* every pattern starts with '<': angles are the offsets of that character
matchAll(s, angles, name) ==
    Leftmost([i \in angles |-> MatchAt(s, i, name)])

----------------------------------------------------------------------------
(* Bundle contents and the digest primitive *)

(* The content selected from a bundle entry (code of a chunk, source of an
   asset) or fetched from the network.  kind says what JavaScript value it
   is; id stands for the bytes of a string or byte array.
     "string", "bytes"  non-empty content
     "empty"            the empty string
     "undefined"        the field is absent
     "object"           a value that is neither a string nor bytes
     "throws"           a getter that throws when read *)
ContentKinds == {"string", "bytes", "empty", "undefined", "object", "throws"}

\* !source
Falsy(content) == content.kind \in {"empty", "undefined"}

\* the algorithms of the model that crypto.createHash accepts, with the
\* length of the base64 text of their digest (32, 48 and 64 bytes)
SupportedAlgorithms == {<<"s", "h", "a", "2", "5", "6">>, <<"s", "h", "a", "3", "8", "4">>, <<"s", "h", "a", "5", "1", "2">>}
DigestLength(algorithm) ==
    IF algorithm = <<"s", "h", "a", "2", "5", "6">> THEN 44
    ELSE IF algorithm = <<"s", "h", "a", "3", "8", "4">> THEN 64
    ELSE 88

(* createHash(algorithm).update(content).digest('base64'): a text of the
   algorithm's length that differs whenever the algorithm or the bytes
   differ (collision freedom is assumed, the text stands for the digest). *)
base64Digest(algorithm, id) ==
    [i \in 1..DigestLength(algorithm) |-> id]

\* `${hashAlgorithm}-${createHash(hashAlgorithm)...digest('base64')}`
sriString(algorithm, id) == algorithm \o <<"-">> \o base64Digest(algorithm, id)

(* The tail of calculateIntegrity, from "if (!source) return null" on.
   createHash throws for an unknown algorithm and Buffer.from throws for a
   value that is neither a string nor bytes; nothing catches either. *)
hashSource(content, hashAlgorithm) ==
    IF Falsy(content) THEN [outcome |-> "null", integrity |-> <<>>]
    ELSE IF hashAlgorithm \notin SupportedAlgorithms
    THEN [outcome |-> "throw_digest", integrity |-> <<>>]
    ELSE IF content.kind = "object"
    THEN [outcome |-> "throw_digest", integrity |-> <<>>]
    ELSE [outcome |-> "ok", integrity |-> sriString(hashAlgorithm, content.id)]

----------------------------------------------------------------------------
(* Bundle resolver *)

\* the working directory path.posix.resolve prepends to a relative path
Cwd == <<"/", "w">>

\* path.posix.dirname
dirname(p) ==
    LET slashes == {i \in 0..(Len(p) - 1) : At(p, i) = "/"}
    IN  IF slashes = {} THEN <<".">>
        ELSE LET last == CHOOSE i \in slashes : \A j \in slashes : j <= i
             IN  IF last = 0 THEN <<"/">> ELSE slice(p, 0, last)

\* path.posix.resolve(dir, url) for a relative dir and a url without "." or
\* ".." segments
pathResolve(dir, url) ==
    IF startsWith(url, <<"/">>) THEN url
    ELSE IF dir = <<".">> THEN Cwd \o <<"/">> \o url
    ELSE Cwd \o <<"/">> \o dir \o <<"/">> \o url

getBundleKey(htmlPath, url, config) ==
    IF startsWith(url, <<"/">>) THEN substring(url, 1)
    ELSE IF config.base = <<".", "/">> \/ config.base = <<>>
    THEN pathResolve(dirname(htmlPath), url)
    ELSE IF startsWith(url, config.base)
    THEN substring(url, Len(config.base))
    ELSE url

\* a bundle is the sequence of its entries in Object.keys order
HasKey(bundle, key) == \E i \in 1..Len(bundle) : bundle[i].key = key
Entry(bundle, key) == bundle[CHOOSE i \in 1..Len(bundle) : bundle[i].key = key]

\* Object.keys(bundle).find(key => key.endsWith(bundleKey) || bundleKey.endsWith(key))
possibleMatch(bundle, bundleKey) ==
    LET hits == {i \in 1..Len(bundle) :
                    \/ endsWith(bundle[i].key, bundleKey)
                    \/ endsWith(bundleKey, bundle[i].key)}
    IN  IF hits = {} THEN 0 ELSE Least(hits)

(* The internal branch of calculateIntegrity: the bundle lookup and the
   digest of what it finds.  outcome is "ok" (integrity returned), "null",
   "throw_missing" (Asset ... not found in bundle), or "throw_digest" (an
   exception from the getter, createHash or Buffer.from); used is the
   entry the content was taken from, 0 if none. *)

\* the result once the digest h of the entry found is known
hashed(bundleKey, found, h) ==
    [outcome |-> h.outcome, integrity |-> h.integrity, key |-> bundleKey,
     used |-> found, warn |-> FALSE]

\* from "if (!bundleItem)" on, found being the entry the lookup settled on
resolved(bundle, options, bundleKey, found) ==
    IF found = 0
    THEN IF options.ignoreMissingAsset
         THEN [outcome |-> "null", integrity |-> <<>>, key |-> bundleKey,
               used |-> 0, warn |-> TRUE]
         ELSE [outcome |-> "throw_missing", integrity |-> <<>>,
               key |-> bundleKey, used |-> 0, warn |-> FALSE]
    ELSE IF bundle[found].content.kind = "throws"
    THEN [outcome |-> "throw_digest", integrity |-> <<>>,
          key |-> bundleKey, used |-> found, warn |-> FALSE]
    ELSE hashed(bundleKey, found,
                hashSource(bundle[found].content, options.hashAlgorithm))

\* bundle[bundleKey], or else the first key that matches loosely
lookup(bundle, options, bundleKey) ==
    resolved(bundle, options, bundleKey,
             IF HasKey(bundle, bundleKey)
             THEN CHOOSE i \in 1..Len(bundle) : bundle[i].key = bundleKey
             ELSE possibleMatch(bundle, bundleKey))

calculateInternal(bundle, htmlPath, url, options, config) ==
    lookup(bundle, options, getBundleKey(htmlPath, url, config))

----------------------------------------------------------------------------
(* Bypass domains *)

(* new URL(url).hostname for the URLs of the model: an http:// or https://
   URL has the host up to the first of / : ? #; any other text that starts
   with "http" has no scheme separator and makes the constructor throw. *)
urlParses(url) == startsWith(url, <<"h", "t", "t", "p", ":", "/", "/">>) \/ startsWith(url, <<"h", "t", "t", "p", "s", ":", "/", "/">>)
hostname(url) ==
    LET from == IF startsWith(url, <<"h", "t", "t", "p", "s", ":", "/", "/">>) THEN 8 ELSE 7
    IN  slice(url, from, indexOfSet(url, from, {"/", ":", "?", "#"}))

isUrlFromBypassDomain(url, bypassDomains) ==
    IF url = <<>> \/ ~startsWith(url, <<"h", "t", "t", "p">>) THEN FALSE
    ELSE IF ~urlParses(url) THEN FALSE
    ELSE \E domain \in bypassDomains :
            \/ hostname(url) = domain
            \/ endsWith(hostname(url), <<".">> \o domain)

\* url.startsWith('http') in calculateIntegrity
IsExternal(url) == startsWith(url, <<"h", "t", "t", "p">>)

----------------------------------------------------------------------------
(* Bounds and the inputs of the model *)

\* tags per document
MaxTags == 2
\* transformHTML calls on one document (the second takes the first's output)
MaxPasses == 2
\* failing network responses (errors, timeouts, bad statuses) in one run
MaxFaults == 3

\* checkResourceSupport(..., retries = 2), fetchResource(..., retries = 1)
CheckRetries == 2
FetchRetries == 1

TagPool ==
    << <<"<", "s", "c", "r", "i", "p", "t", " ", "s", "r", "c", "=", "\"", "a", ".", "j", "s", "\"", ">", "<", "/", "s", "c", "r", "i", "p", "t", ">">>,
       <<"<", "l", "i", "n", "k", " ", "r", "e", "l", "=", "\"", "s", "t", "y", "l", "e", "s", "h", "e", "e", "t", "\"", " ", "h", "r", "e", "f", "=", "\"", "b", ".", "c", "s", "s", "\"", ">">>,
       <<"<", "l", "i", "n", "k", " ", "r", "e", "l", "=", "\"", "m", "o", "d", "u", "l", "e", "p", "r", "e", "l", "o", "a", "d", "\"", " ", "h", "r", "e", "f", "=", "\"", "a", ".", "j", "s", "\"", ">">>,
       <<"<", "s", "c", "r", "i", "p", "t", " ", "s", "r", "c", "=", "\"", "m", ".", "j", "s", "\"", ">", "<", "/", "s", "c", "r", "i", "p", "t", ">">>,
       <<"<", "s", "c", "r", "i", "p", "t", " ", "s", "r", "c", "=", "\"", "a", ".", "j", "s", "\"", " ", "i", "n", "t", "e", "g", "r", "i", "t", "y", "=", "\"", "s", "h", "a", "3", "8", "4", "-", "o", "l", "d", "\"", ">", "<", "/", "s", "c", "r", "i", "p", "t", ">">>,
       <<"<", "s", "c", "r", "i", "p", "t", " ", "s", "r", "c", "=", "\"", "h", "t", "t", "p", "s", ":", "/", "/", "x", ".", "i", "o", "/", "a", ".", "j", "s", "\"", ">", "<", "/", "s", "c", "r", "i", "p", "t", ">">>,
       <<"<", "s", "c", "r", "i", "p", "t", " ", "s", "r", "c", "=", "\"", "h", "t", "t", "p", "s", ":", "/", "/", "s", ".", "c", "d", "n", ".", "i", "o", ":", "8", "/", "a", ".", "j", "s", "\"", ">", "<", "/", "s", "c", "r", "i", "p", "t", ">">>,
       <<"<", "s", "c", "r", "i", "p", "t", " ", "s", "r", "c", "=", "\"", "/", "/", "c", "d", "n", ".", "i", "o", "/", "a", ".", "j", "s", "\"", ">", "<", "/", "s", "c", "r", "i", "p", "t", ">">>,
       <<"<", "s", "c", "r", "i", "p", "t", " ", "c", "r", "o", "s", "s", "o", "r", "i", "g", "i", "n", "=", "\"", "u", "s", "e", "-", "c", "r", "e", "d", "e", "n", "t", "i", "a", "l", "s", "\"", " ", "s", "r", "c", "=", "\"", "a", ".", "j", "s", "\"", ">", "<", "/", "s", "c", "r", "i", "p", "t", ">">>,
       <<"<", "s", "c", "r", "i", "p", "t", " ", "s", "r", "c", "=", "\"", "h", "t", "t", "p", ":", "/", "/", "x", ".", "i", "o", "\"", ">", "<", "/", "s", "c", "r", "i", "p", "t", ">">>,
       <<"<", "p", ">", "h", "i", "<", "/", "p", ">">>,
       <<"<", "s", "c", "r", "i", "p", "t", " ", "s", "r", "c", "=", "\"", "a", ".", "j", "s", "\"", ">">>,
       <<"<", "l", "i", "n", "k", " ", "r", "e", "l", "=", "\"", "s", "t", "y", "l", "e", "s", "h", "e", "e", "t", "\"", " ", "h", "r", "e", "f", "=", "b", ".", "c", "s", "s", ">">>,
       <<"<", "s", "c", "r", "i", "p", "t", " ", "s", "r", "c", "=", "\"", "a", ".", "j", "s", "?", "v", "=", "1", "\"", ">", "<", "/", "s", "c", "r", "i", "p", "t", ">">>,
       <<"<", "s", "c", "r", "i", "p", "t", " ", "s", "r", "c", "=", "\"", "d", "a", "t", "a", ":", ",", "x", "\"", ">", "<", "/", "s", "c", "r", "i", "p", "t", ">">>,
       <<"<", "l", "i", "n", "k", " ", "r", "e", "l", "=", "\"", "s", "t", "y", "l", "e", "s", "h", "e", "e", "t", "\"", " ", "h", "r", "e", "f", "=", "\"", "j", "a", "v", "a", "s", "c", "r", "i", "p", "t", ":", "0", "\"", ">">> >>

\* the entries of TagPool that are no tag of the patterns: plain markup, a
\* script tag that is never closed, a link tag with an unquoted attribute
PlainPool == {11, 12, 13}

\* values that are not strings; the model writes each as a one-element
\* tuple, which no text is (a text is a tuple of characters)
NotStrings == {<<"null">>, <<"undefined">>, <<"number">>, <<"object">>}

\* the text between two tags
Gap == <<"\n">>

RECURSIVE Document(_)
Document(sel) ==
    IF sel = <<>> THEN <<>>
    ELSE TagPool[Head(sel)] \o Gap \o Document(Tail(sel))

Selections == UNION {[1..n -> 1..Len(TagPool)] : n \in 0..MaxTags}

Chunk(key, content) == [key |-> key, type |-> "chunk", content |-> content]
Asset(key, content) == [key |-> key, type |-> "asset", content |-> content]
Str(id) == [kind |-> "string", id |-> id]
Bytes(id) == [kind |-> "bytes", id |-> id]
Odd(kind) == [kind |-> kind, id |-> "-"]
\* a byte array of length 0
NoBytes == Bytes("")

Bundles ==
    { << Chunk(<<"a", ".", "j", "s">>, Str("A")), Asset(<<"b", ".", "c", "s", "s">>, Bytes("B")) >>,
      << Chunk(<<"d", "a", "t", "a", ".", "j", "s">>, Str("C")), Asset(<<"b", ".", "c", "s", "s">>, Odd("object")) >>,
      << Chunk(<<"a", ".", "j", "s">>, Odd("throws")), Asset(<<"b", ".", "c", "s", "s">>, Odd("empty")) >>,
      << Chunk(<<"a", ".", "j", "s">>, Odd("undefined")), Asset(<<"b", ".", "c", "s", "s">>, NoBytes) >> }

Algorithms == SupportedAlgorithms \cup {<<"m", "d", "0">>}
BypassDomains == {<<"c", "d", "n", ".", "i", "o">>}

\* the bytes the server of an external url serves
RemoteBody(url) == Bytes(IF hostname(url) = <<"x", ".", "i", "o">> THEN "X" ELSE "Y")

\* what a HEAD request can come back with: a response (ok is "status in
\* 200..299", header the Access-Control-Allow-Origin value), a network
\* error, or the abort of the 5 s timer
HeadResults ==
    {[kind |-> "response", ok |-> o, header |-> h] :
        o \in BOOLEAN, h \in {"star", "none", "origin"}}
    \cup {[kind |-> k, ok |-> FALSE, header |-> "none"] : k \in {"error", "abort"}}

\* what a GET request can come back with; "body" is a 2xx response whose
\* arrayBuffer() rejects
GetResults == {"ok", "status", "body", "error", "abort"}

HeadFault(r) == r.kind # "response" \/ ~r.ok
GetFault(r) == r # "ok"

----------------------------------------------------------------------------
(* State *)

VARIABLES
    html,             \* the document given to transformHTML
    bundle,           \* the bundle, entries in key order
    options,          \* hashAlgorithm, bypassDomains, ignoreMissingAsset
    config,           \* base
    htmlPath,
    pc,               \* "ready", "resolving", "done", "rejected"
    pass,             \* number of the transformHTML call
    tasks,            \* one processMatch call per match
    changes,          \* the sorted changes applyIntegrityChanges works on
    applied,          \* positions (in html) where a splice was made
    out,              \* the string transformHTML returns
    error,            \* the rejection that reaches the caller
    urlSupportCache,  \* cacheManager.getUrlSupportCache()
    resourceCache,    \* cacheManager.getResourceCache()
    requests,         \* the fetch calls issued so far
    faults,           \* failing responses so far
    log,              \* logger calls
    first,            \* input, output and resolutions of the first call
    files,            \* the HTML files of the build
    plugin,           \* the state of the plugin object sri() returned
    logger,           \* a Logger instance
    console,          \* the console calls the Logger has made
    now,              \* Date.now()
    items,            \* this.cache of a ResourceCache with a clock
    got               \* what the last call on that ResourceCache returned

vars == <<html, bundle, options, config, htmlPath, pc, pass, tasks, changes,
          applied, out, error, urlSupportCache, resourceCache, requests,
          faults, log, first, files, plugin, logger, console, now, items, got>>

NoError == [kind |-> "none", url |-> <<>>]
NoFirst == [html |-> <<>>, out |-> <<>>, tasks |-> <<>>]
\* transformHTML called on its own, outside any build
NoPlugin == [hook |-> "none"]
EmptyCache == [u \in {} |-> 0]

\* the Logger and the ResourceCache that are looked at on their own
units == <<logger, console, now, items, got>>
NoLogger == [logLevel |-> "none"]
NoResult == [op |-> "none"]
NoUnits ==
    /\ logger = NoLogger
    /\ console = <<>>
    /\ now = 0
    /\ items = EmptyCache
    /\ got = NoResult

Init ==
    /\ \/ \E sel \in Selections : html = Document(sel)
       \/ html \in NotStrings
    /\ bundle \in Bundles
    /\ \E a \in Algorithms, i \in BOOLEAN :
          options = [hashAlgorithm |-> a, bypassDomains |-> BypassDomains,
                     ignoreMissingAsset |-> i]
    /\ config = [base |-> <<"/">>]
    /\ htmlPath = <<"i", "n", "d", "e", "x", ".", "h", "t", "m", "l">>
    /\ pc = "ready"
    /\ pass = 1
    /\ tasks = <<>>
    /\ changes = <<>>
    /\ applied = {}
    /\ out = <<>>
    /\ error = NoError
    /\ urlSupportCache = EmptyCache
    /\ resourceCache = EmptyCache
    /\ requests = {}
    /\ faults = 0
    /\ log = {}
    /\ first = NoFirst
    /\ files = <<>>
    /\ plugin = NoPlugin
    /\ NoUnits

----------------------------------------------------------------------------
(* ResourceCache: get, has, set.  has is "get(key) !== undefined", so an
   entry whose value is undefined counts as absent.  Entries expire after
   one hour; a build is over long before, and the model has no clock. *)

cacheHas(cache, key) == key \in DOMAIN cache /\ cache[key] # "undefined"
cacheSet(cache, key, value) ==
    [k \in DOMAIN cache \cup {key} |-> IF k = key THEN value ELSE cache[k]]

\* resourceCache holds content records, none of them undefined
resourceHas(cache, key) == key \in DOMAIN cache

----------------------------------------------------------------------------
(* calculateIntegrity, cut at its awaits *)

(* A task is one processMatch call.  st is where it stands:
     "head"  checkResourceSupport awaits the HEAD response
     "get"   fetchResource awaits the GET response
     "ok"    resolved with an integrity string
     "null"  resolved with null
     "throw_missing", "throw_digest"  rejected
   cors records what checkResourceSupport's answer came from. *)
Settled == {"ok", "null"}
Thrown == {"throw_missing", "throw_digest"}

NewTask(name, m) ==
    [pattern |-> name, url |-> m.url, index |-> m.index, end |-> m.end,
     position |-> m.end - HTML_PATTERNS(name).endOffset,
     st |-> "null", attempt |-> 0, integrity |-> <<>>, why |-> "",
     cors |-> "unchecked"]

\* "if (!source) return null" and the two createHash lines, for fetched bytes
External(t, h) ==
    [t EXCEPT !.st = h.outcome, !.integrity = h.integrity,
              !.why = IF h.outcome = "null" THEN "falsy" ELSE ""]

Hashed(t, content) == External(t, hashSource(content, options.hashAlgorithm))

\* a fetchResource that hands out nothing when the cache has the url
BeginFetchNoHit(t) ==
    IF resourceHas(resourceCache, t.url)
    THEN [t EXCEPT !.st = "null", !.why = "falsy"]
    ELSE [t EXCEPT !.st = "get", !.attempt = 0]

\* fetchResource up to its first await
BeginFetch(t) ==
    IF resourceHas(resourceCache, t.url)
    THEN Hashed(t, resourceCache[t.url])
    ELSE [t EXCEPT !.st = "get", !.attempt = 0]

\* the task of an internal url, r being what calculateInternal returns
Internal(t, r) ==
    [t EXCEPT !.st = r.outcome, !.integrity = r.integrity,
              !.why = IF r.outcome # "null" THEN ""
                      ELSE IF r.warn THEN "missing" ELSE "falsy"]

\* a calculateIntegrity that fetches whatever verdict the cache holds
BeginWhateverVerdict(t) ==
    IF isUrlFromBypassDomain(t.url, options.bypassDomains)
    THEN [t EXCEPT !.st = "null", !.why = "bypass"]
    ELSE IF IsExternal(t.url)
    THEN IF cacheHas(urlSupportCache, t.url)
         THEN BeginFetch([t EXCEPT !.cors = "cached"])
         ELSE [t EXCEPT !.st = "head", !.attempt = 0]
    ELSE Internal(t, calculateInternal(bundle, htmlPath, t.url, options, config))

\* calculateIntegrity up to its first await
Begin(t) ==
    IF isUrlFromBypassDomain(t.url, options.bypassDomains)
    THEN [t EXCEPT !.st = "null", !.why = "bypass"]
    ELSE IF IsExternal(t.url)
    THEN IF cacheHas(urlSupportCache, t.url)
         THEN IF urlSupportCache[t.url] = "true"
              THEN BeginFetch([t EXCEPT !.cors = "cached"])
              ELSE [t EXCEPT !.st = "null", !.why = "cors", !.cors = "cached"]
         ELSE [t EXCEPT !.st = "head", !.attempt = 0]
    ELSE Internal(t, calculateInternal(bundle, htmlPath, t.url, options, config))

\* the fetch call a task in flight has issued
Request(t) == [method |-> IF t.st = "head" THEN "HEAD" ELSE "GET", url |-> t.url]
InFlight(ts) == {Request(ts[k]) : k \in {j \in 1..Len(ts) : ts[j].st \in {"head", "get"}}}

Warn(msg, url) == [level |-> "warn", msg |-> msg, url |-> url]
Debug(msg, url) == [level |-> "debug", msg |-> msg, url |-> url]

\* the warnings of the synchronous part of calculateIntegrity
BeginLog(t) ==
    (IF startsWith(t.url, <<"h", "t", "t", "p">>) /\ ~urlParses(t.url)
     THEN {Warn("Invalid URL", t.url)} ELSE {})
    \cup (IF t.why = "missing"
          THEN {Warn("Asset not found in bundle", t.url)} ELSE {})

----------------------------------------------------------------------------
(* collectIntegrityChanges and applyIntegrityChanges *)

RECURSIVE Concat(_)
Concat(seqs) == IF seqs = <<>> THEN <<>> ELSE Head(seqs) \o Concat(Tail(seqs))

\* the processMatch calls of one pattern, for its matches ms
PatternTasks(name, ms) == [k \in 1..Len(ms) |-> NewTask(name, ms[k])]

\* the matches of the three patterns, pattern by pattern
PatternMatches(s, angles) ==
    Concat([p \in 1..3 |->
        PatternTasks(PatternNames[p], matchAll(s, angles, PatternNames[p]))])

AllMatches(s) == PatternMatches(s, {i \in 0..(Len(s) - 1) : At(s, i) = "<"})

\* every processMatch call run to its first await
Launch(ms) == [k \in DOMAIN ms |-> Begin(ms[k])]

\* the changes of one pattern: matchResults.filter(Boolean)
RECURSIVE patternChanges(_, _)
patternChanges(ts, name) ==
    IF ts = <<>> THEN <<>>
    ELSE LET t == Head(ts)
         IN  (IF t.pattern = name /\ t.st = "ok"
              THEN <<[integrity |-> t.integrity, position |-> t.position,
                      url |-> t.url]>>
              ELSE <<>>) \o patternChanges(Tail(ts), name)

\* the orders in which the three patterns can finish and push their changes
PatternOrders == {o \in [1..3 -> 1..3] : \A i, j \in 1..3 : i # j => o[i] # o[j]}

\* the lists collectIntegrityChanges can return, one per order of completion
collectIntegrityChanges(ts) ==
    {Concat([k \in 1..3 |-> patternChanges(ts, PatternNames[o[k]])]) :
        o \in PatternOrders}

\* applyIntegrityChanges without its sort
keepOrder(cs) == cs

\* changes.sort((a, b) => b.position - a.position): stable, descending
RECURSIVE InsertDescending(_, _)
InsertDescending(sorted, c) ==
    IF sorted = <<>> THEN <<c>>
    ELSE IF Head(sorted).position >= c.position
    THEN <<Head(sorted)>> \o InsertDescending(Tail(sorted), c)
    ELSE <<c>> \o sorted

RECURSIVE sortChanges(_)
sortChanges(cs) ==
    IF cs = <<>> THEN <<>>
    ELSE InsertDescending(sortChanges(SubSeq(cs, 1, Len(cs) - 1)), cs[Len(cs)])

\* the width of the text hasExistingIntegrity inspects on each side
Window == 100

hasExistingIntegrity(s, position, integrity) ==
    LET segment == slice(s, Max(0, position - Window), position + Window)
    IN  includes(segment, <<"i", "n", "t", "e", "g", "r", "i", "t", "y", "=", "\"">> \o integrity \o <<"\"">>)

insertText(integrity) == <<" ", "i", "n", "t", "e", "g", "r", "i", "t", "y", "=", "\"">> \o integrity \o <<"\"">>

\* the loop with a splice that writes over the character at the position
RECURSIVE applyLoopOverwriting(_, _)
applyLoopOverwriting(acc, cs) ==
    IF cs = <<>> THEN acc
    ELSE IF hasExistingIntegrity(acc.html, Head(cs).position, Head(cs).integrity)
    THEN applyLoopOverwriting(acc, Tail(cs))
    ELSE applyLoopOverwriting(
            [html |-> slice(acc.html, 0, Head(cs).position)
                      \o insertText(Head(cs).integrity)
                      \o substring(acc.html, Head(cs).position + 1),
             applied |-> acc.applied \cup {Head(cs).position},
             log |-> acc.log \cup {Debug("Added integrity", Head(cs).url)}],
            Tail(cs))

\* the for loop of applyIntegrityChanges over the sorted changes: the
\* string, the positions spliced at, and the debug lines
RECURSIVE applyLoop(_, _)
applyLoop(acc, cs) ==
    IF cs = <<>> THEN acc
    ELSE LET c == Head(cs)
         IN  IF hasExistingIntegrity(acc.html, c.position, c.integrity)
             THEN applyLoop(acc, Tail(cs))
             ELSE applyLoop(
                    [html |-> slice(acc.html, 0, c.position)
                              \o insertText(c.integrity)
                              \o substring(acc.html, c.position),
                     applied |-> acc.applied \cup {c.position},
                     log |-> acc.log \cup {Debug("Added integrity", c.url)}],
                    Tail(cs))

applyIntegrityChanges(s, cs) ==
    applyLoop([html |-> s, applied |-> {}, log |-> {}], sortChanges(cs))

----------------------------------------------------------------------------
(* Actions *)

Rejection(ts) ==
    LET k == Least({j \in 1..Len(ts) : ts[j].st \in Thrown})
    IN  [kind |-> ts[k].st, url |-> ts[k].url]

\* !html || typeof html !== 'string' is the rejected input: the empty
\* string, null and undefined are falsy, a number or an object is no string
validateHtmlInput(h) == h # <<>> /\ h \notin NotStrings

(* transformHTML up to its first suspension: validateHtmlInput, the three
   matchAll scans, and every processMatch call run to its first await.  A
   task that throws there rejects the Promise.all and with it transformHTML;
   the other tasks stay in flight. *)
Start ==
    /\ pc = "ready"
    /\ IF ~validateHtmlInput(html)
       THEN /\ out' = html
            /\ pc' = "done"
            /\ log' = log \cup {Warn("Invalid HTML content", htmlPath)}
            /\ UNCHANGED <<tasks, requests, error>>
       ELSE \E ts \in {Launch(AllMatches(html))} :
                /\ tasks' = ts
                /\ requests' = requests \cup InFlight(ts)
                /\ log' = log \cup UNION {BeginLog(ts[k]) : k \in 1..Len(ts)}
                /\ IF \E k \in 1..Len(ts) : ts[k].st \in Thrown
                   THEN pc' = "rejected" /\ error' = Rejection(ts)
                   ELSE pc' = "resolving" /\ error' = error
                /\ out' = out
    /\ UNCHANGED <<html, bundle, options, config, htmlPath, pass, changes,
                   applied, urlSupportCache, resourceCache, faults, first>>
    /\ UNCHANGED <<files, plugin>>
    /\ UNCHANGED units

\* a task settles or throws after an await: the rejection reaches the caller
\* if nothing was rejected before
Settle(k, t) ==
    /\ tasks' = [tasks EXCEPT ![k] = t]
    /\ requests' = requests \cup InFlight(<<t>>)
    /\ IF t.st \in Thrown /\ pc = "resolving"
       THEN pc' = "rejected" /\ error' = [kind |-> t.st, url |-> t.url]
       ELSE UNCHANGED <<pc, error>>

\* a catch block of checkResourceSupport that forgets the break on AbortError
retryCheckAfterTimeout(r, attempt) == attempt < CheckRetries

\* the catch block of checkResourceSupport: an AbortError leaves the loop,
\* any other error goes round again while attempt < retries
retryCheck(r, attempt) == r.kind = "error" /\ attempt < CheckRetries

(* checkResourceSupport after the HEAD came back.  A response settles the
   check and is cached; an abort ends the loop; any other error is retried
   until the attempts are used up.  A failed check is cached as false. *)
HeadReturns(k, r) ==
    /\ k \in 1..Len(tasks)
    /\ tasks[k].st = "head"
    /\ HeadFault(r) => faults < MaxFaults
    /\ faults' = IF HeadFault(r) THEN faults + 1 ELSE faults
    /\ LET t == tasks[k]
           isSupported == IF ~r.ok THEN "false"
                          ELSE IF r.header = "star" THEN "true"
                          ELSE IF r.header = "none" THEN "undefined"
                          ELSE "false"
       IN  IF r.kind = "response"
           THEN /\ urlSupportCache' = cacheSet(urlSupportCache, t.url, isSupported)
                /\ log' = log
                /\ IF isSupported = "true"
                   THEN Settle(k, BeginFetch([t EXCEPT !.cors = "star"]))
                   ELSE Settle(k, [t EXCEPT !.st = "null", !.why = "cors",
                                            !.cors = IF r.header = "none"
                                                     THEN "no header"
                                                     ELSE "refused"])
           ELSE IF retryCheck(r, t.attempt)
           THEN /\ Settle(k, [t EXCEPT !.attempt = t.attempt + 1])
                /\ UNCHANGED <<urlSupportCache, log>>
           ELSE /\ urlSupportCache' = cacheSet(urlSupportCache, t.url, "false")
                /\ log' = log \cup {Warn("Failed to check resource support", t.url)}
                             \cup (IF r.kind = "abort"
                                   THEN {Warn("Resource check timed out", t.url)}
                                   ELSE {})
                /\ Settle(k, [t EXCEPT !.st = "null", !.why = "cors",
                                       !.cors = "failed"])
    /\ UNCHANGED <<html, bundle, options, config, htmlPath, pass, changes,
                   applied, out, resourceCache, first>>
    /\ UNCHANGED <<files, plugin>>
    /\ UNCHANGED units

\* a catch block of fetchResource that forgets the break on AbortError
retryFetchAfterTimeout(r, attempt) == attempt < FetchRetries

\* the catch block of fetchResource: an AbortError leaves the loop, any other
\* error goes round again while attempt < retries
retryFetch(r, attempt) == r # "abort" /\ attempt < FetchRetries

(* fetchResource after the GET came back, and the rest of calculateIntegrity.
   A 2xx response whose body can be read is cached and hashed; a bad status
   and a body that cannot be read are errors, retried once; an abort is not
   retried.  Without bytes the task resolves with null. *)
GetReturns(k, r) ==
    /\ k \in 1..Len(tasks)
    /\ tasks[k].st = "get"
    /\ GetFault(r) => faults < MaxFaults
    /\ faults' = IF GetFault(r) THEN faults + 1 ELSE faults
    /\ LET t == tasks[k]
       IN  IF r = "ok"
           THEN /\ resourceCache' = cacheSet(resourceCache, t.url, RemoteBody(t.url))
                /\ log' = log
                /\ Settle(k, Hashed(t, RemoteBody(t.url)))
           ELSE IF retryFetch(r, t.attempt)
           THEN /\ Settle(k, [t EXCEPT !.attempt = t.attempt + 1])
                /\ UNCHANGED <<resourceCache, log>>
           ELSE /\ log' = log \cup {Warn("Failed to fetch external resource", t.url)}
                             \cup (IF r = "abort"
                                   THEN {Warn("Resource fetch timed out", t.url)}
                                   ELSE {})
                /\ Settle(k, [t EXCEPT !.st = "null", !.why = "fetch"])
                /\ UNCHANGED resourceCache
    /\ UNCHANGED <<html, bundle, options, config, htmlPath, pass, changes,
                   applied, out, urlSupportCache, first>>
    /\ UNCHANGED <<files, plugin>>
    /\ UNCHANGED units

(* Every task has resolved: each pattern pushes its changes (in the order
   the patterns finished), and applyIntegrityChanges sorts and splices. *)
Finish ==
    /\ pc = "resolving"
    /\ \A k \in 1..Len(tasks) : tasks[k].st \in Settled
    /\ \E collected \in collectIntegrityChanges(tasks) :
          \E result \in {applyIntegrityChanges(html, collected)} :
              /\ changes' = sortChanges(collected)
              /\ out' = result.html
              /\ applied' = result.applied
              /\ log' = log \cup result.log
    /\ pc' = "done"
    /\ UNCHANGED <<html, bundle, options, config, htmlPath, pass, tasks,
                   error, urlSupportCache, resourceCache, requests, faults,
                   first>>
    /\ UNCHANGED <<files, plugin>>
    /\ UNCHANGED units

\* the caller transforms the returned document again, with the same bundle,
\* options and caches
Retransform ==
    /\ pc = "done"
    /\ pass < MaxPasses
    /\ first' = [html |-> html, out |-> out, tasks |-> tasks]
    /\ html' = out
    /\ pass' = pass + 1
    /\ pc' = "ready"
    /\ tasks' = <<>>
    /\ changes' = <<>>
    /\ applied' = {}
    /\ out' = <<>>
    /\ UNCHANGED <<bundle, options, config, htmlPath, error, urlSupportCache,
                   resourceCache, requests, faults, log>>
    /\ UNCHANGED <<files, plugin>>
    /\ UNCHANGED units

\* one transformHTML call
Next ==
    \/ Start
    \/ \E k \in DOMAIN tasks, r \in HeadResults : HeadReturns(k, r)
    \/ \E k \in DOMAIN tasks, r \in GetResults : GetReturns(k, r)
    \/ Finish

Spec == Init /\ [][Next]_vars

\* transformHTML called again on what it returned, for the documents of a
\* plain bundle
InitTwice ==
    /\ Init
    /\ bundle = << Chunk(<<"a", ".", "j", "s">>, Str("A")), Asset(<<"b", ".", "c", "s", "s">>, Bytes("B")) >>
    /\ options.ignoreMissingAsset

NextTwice ==
    \/ Next
    \/ Retransform

SpecTwice == InitTwice /\ [][NextTwice]_vars

----------------------------------------------------------------------------
(* The write-stage variant: sri() of src/src/index.js with the hooks
   configResolved, transformIndexHtml and writeBundle.  First its helpers. *)

(* A property of an options object, read the way the code reads it; a
   property the object does not have is undefined. *)
\* computeSri(content, options.algorithm): undefined takes the default
optAlgorithm(o) == IF "algorithm" \in DOMAIN o THEN o.algorithm ELSE <<"s", "h", "a", "3", "8", "4">>
\* `${options.crossorigin}`
optCrossorigin(o) ==
    IF "crossorigin" \in DOMAIN o THEN o.crossorigin ELSE <<"u", "n", "d", "e", "f", "i", "n", "e", "d">>
\* isBypassDomain(url, options.bypassDomains): undefined takes the default []
optBypassDomains(o) ==
    IF "bypassDomains" \in DOMAIN o THEN o.bypassDomains ELSE {}
\* options.ignoreMissingAsset as a condition
optIgnoreMissingAsset(o) ==
    "ignoreMissingAsset" \in DOMAIN o /\ o.ignoreMissingAsset
\* options.domain || ''
optDomain(o) == IF "domain" \in DOMAIN o THEN o.domain ELSE <<>>

(* computeSri: createHash throws for an unknown algorithm and the function
   throws 'Invalid content type' for a value that is neither a string nor
   bytes; both are caught, logged with console.error and give null.  The
   empty string is a string and is hashed. *)
computeSri(content, algorithm) ==
    IF algorithm \in SupportedAlgorithms
       /\ content.kind \in {"string", "bytes", "empty"}
    THEN [ok |-> TRUE, hash |-> sriString(algorithm, content.id)]
    ELSE [ok |-> FALSE, hash |-> <<>>]

\* /^(https?:)?\/\//i
isExternalUrl(url) ==
    \/ startsWith(url, <<"/", "/">>)
    \/ startsWith(url, <<"h", "t", "t", "p", ":", "/", "/">>)
    \/ startsWith(url, <<"h", "t", "t", "p", "s", ":", "/", "/">>)

\* hostname.split('/')[0].split(':')[0] after the scheme is sliced off
hostPart(rest) ==
    slice(rest, 0, indexOfSet(rest, 0, {"/", ":"}))

isBypassDomain(url, bypassDomains) ==
    IF bypassDomains = {} THEN FALSE
    ELSE \E domain \in bypassDomains :
            \E host \in {hostPart(IF startsWith(url, <<"h", "t", "t", "p", ":", "/", "/">>) THEN substring(url, 7)
                                  ELSE IF startsWith(url, <<"h", "t", "t", "p", "s", ":", "/", "/">>) THEN substring(url, 8)
                                  ELSE IF startsWith(url, <<"/", "/">>) THEN substring(url, 2)
                                  ELSE url)} :
                host = domain \/ endsWith(host, <<".">> \o domain)

(* hasCrossOriginAttr:
   /(?:^|\s)crossorigin(?:=["']?[^"'\s>]*["']?)?(?:\s|>|$)/i
   The model's tags are written in lower case. *)
\* (?:\s|>|$) at offset e
AttrEnds(tag, e) == e = Len(tag) \/ (e < Len(tag) /\ At(tag, e) \in Space \cup {">"})
\* ["']? at offset e: the offsets the rest can go on from
OptionalQuote(tag, e) ==
    {e} \cup (IF e < Len(tag) /\ At(tag, e) \in Quote THEN {e + 1} ELSE {})
\* =["']?[^"'\s>]*["']? after the name, then the end of the attribute
ValueEnds(tag, e) ==
    /\ e < Len(tag)
    /\ At(tag, e) = "="
    /\ \E v \in OptionalQuote(tag, e + 1) :
          \E w \in OptionalQuote(tag, indexOfSet(tag, v, Quote \cup Space \cup {">"})) :
              AttrEnds(tag, w)
hasCrossOriginAttr(tag) ==
    \E i \in 0..(Len(tag) - 11) :
        /\ i = 0 \/ At(tag, i - 1) \in Space
        /\ AtLit(tag, i, <<"c", "r", "o", "s", "s", "o", "r", "i", "g", "i", "n">>)
        /\ AttrEnds(tag, i + 11) \/ ValueEnds(tag, i + 11)

\* tag.replace(/>$/, ` integrity="${hash}"${crossOriginAttr}>`)
newTagOf(tag, hash, o) ==
    IF ~endsWith(tag, <<">">>) THEN tag
    ELSE slice(tag, 0, Len(tag) - 1)
         \o <<" ", "i", "n", "t", "e", "g", "r", "i", "t", "y", "=", "\"">> \o hash \o <<"\"">>
         \o (IF hasCrossOriginAttr(tag) THEN <<>>
             ELSE <<" ", "c", "r", "o", "s", "s", "o", "r", "i", "g", "i", "n", "=", "\"">> \o optCrossorigin(o) \o <<"\"">>)
         \o <<">">>

(* getBundleKey(url, base) of this variant: the keys tried, in order.  The
   code removes duplicates ([...new Set(paths)]); the first key the bundle
   holds is the same with or without them. *)
\* cleanUrl.replace(/^static\//, '')
stripStatic(u) == IF startsWith(u, <<"s", "t", "a", "t", "i", "c", "/">>) THEN substring(u, 7) ELSE u
\* cleanUrl.replace(/-[a-zA-Z0-9]+\.([^.]+)$/, '.$1'), dot being the last dot
\* of u and dash the last dash before it
cutHash(u, dash, dot) ==
    IF /\ dash >= 0
       /\ dash + 1 < dot
       /\ dot + 1 < Len(u)
       /\ \A k \in (dash + 1)..(dot - 1) : At(u, k) \in Lower \cup Upper \cup Digit
    THEN slice(u, 0, dash) \o substring(u, dot)
    ELSE u
lastOf(u, c, before) ==
    IF \E k \in 0..(before - 1) : At(u, k) = c
    THEN CHOOSE k \in 0..(before - 1) :
            At(u, k) = c /\ \A j \in (k + 1)..(before - 1) : At(u, j) # c
    ELSE 0 - 1
withoutHashAt(u, dot) == IF dot < 0 THEN u ELSE cutHash(u, lastOf(u, "-", dot), dot)
withoutHash(u) == withoutHashAt(u, lastOf(u, ".", Len(u)))
keysOf(c, w) ==
    << c, <<"s", "t", "a", "t", "i", "c", "/">> \o c, stripStatic(c) >>
    \o (IF w # c THEN << w, <<"s", "t", "a", "t", "i", "c", "/">> \o w, stripStatic(w) >> ELSE <<>>)
cleanUrlOf(u) == IF startsWith(u, <<"/">>) THEN substring(u, 1) ELSE u
possibleKeysOf(c) == keysOf(c, withoutHash(c))
possibleKeys(url, base) ==
    possibleKeysOf(cleanUrlOf(IF startsWith(url, base)
                              THEN substring(url, Len(base)) ELSE url))

\* the first of the keys that the bundle holds, 0 if none: the index of the
\* entry in the bundle
RECURSIVE firstHeld(_, _)
firstHeld(b, keys) ==
    IF keys = <<>> THEN 0
    ELSE IF HasKey(b, Head(keys))
    THEN CHOOSE i \in 1..Len(b) : b[i].key = Head(keys)
    ELSE firstHeld(b, Tail(keys))

(* The tag patterns of transformIndexHtml:
     /<script[^>]+src=(?:["']([^"']+)["']|([^ >]+))[^>]*>/g
     /<link[^>]+href=(?:["']([^"']+)["']|([^ >]+))[^>]*>/g
   open is <script or <link, attr is src= or href=. *)

\* ([^ >]+) at offset v, e being the offset of the next space or '>'
TagUnquoted(v, e) ==
    IF e > v THEN [ok |-> TRUE, from |-> v, to |-> e, next |-> e] ELSE NoAttr
\* the value at offset v: a being what the quoted alternative finds there
TagValue(s, v, a) ==
    IF a.ok THEN a ELSE TagUnquoted(v, indexOfSet(s, v, {" ", ">"}))
\* [^>]*> after the value a: g is the offset of the '>'
TagClose(s, i, a, g) ==
    IF g < Len(s)
    THEN [ok |-> TRUE, index |-> i, end |-> g + 1, url |-> slice(s, a.from, a.to)]
    ELSE NoMatch
TagRest(s, i, a) ==
    IF a.ok THEN TagClose(s, i, a, indexOfSet(s, a.next, {">"})) ELSE NoMatch
\* attr at offset j and what follows
TagAttrAt(s, i, j, attr) ==
    IF AtLit(s, j, attr)
    THEN TagRest(s, i, TagValue(s, j + Len(attr), AttrQuote(s, j + Len(attr))))
    ELSE NoMatch
\* [^>]+ is greedy: the last offset where the rest matches
TagLast(s, i, attr, J) ==
    IF J = {} THEN NoMatch
    ELSE TagAttrAt(s, i, CHOOSE j \in J : \A k \in J : k <= j, attr)
TagMatchAt(s, i, open, attr) ==
    IF ~AtLit(s, i, open) THEN NoMatch
    ELSE TagLast(s, i, attr,
            {j \in (i + Len(open) + 1)..indexOfSet(s, i + Len(open), {">"}) :
                TagAttrAt(s, i, j, attr).ok})

\* the exec loop of one pattern: the matches with their tag text
tagsOf(s, ms, type) ==
    [k \in 1..Len(ms) |->
        [tag |-> slice(s, ms[k].index, ms[k].end), url |-> ms[k].url,
         type |-> type]]
execAll(s, angles, open, attr, type) ==
    tagsOf(s, Leftmost([i \in angles |-> TagMatchAt(s, i, open, attr)]), type)

\* tag.includes('stylesheet') || tag.includes('modulepreload')
RECURSIVE linksOnly(_)
linksOnly(rs) ==
    IF rs = <<>> THEN <<>>
    ELSE (IF includes(Head(rs).tag, <<"s", "t", "y", "l", "e", "s", "h", "e", "e", "t">>)
             \/ includes(Head(rs).tag, <<"m", "o", "d", "u", "l", "e", "p", "r", "e", "l", "o", "a", "d">>)
          THEN <<Head(rs)>> ELSE <<>>) \o linksOnly(Tail(rs))

\* resourceTags: the script tags, then the link tags
resourcesAt(s, angles) ==
    execAll(s, angles, <<"<", "s", "c", "r", "i", "p", "t">>, <<"s", "r", "c", "=">>, "script")
    \o linksOnly(execAll(s, angles, <<"<", "l", "i", "n", "k">>, <<"h", "r", "e", "f", "=">>, "link"))
resourceTags(s) == resourcesAt(s, {i \in 0..(Len(s) - 1) : At(s, i) = "<"})

\* content.replace(update.tag, update.newTag): the first occurrence of the
\* tag text (the tags and digests of the model hold no '$')
replaceAt(content, tag, newTag, I) ==
    IF I = {} THEN content
    ELSE slice(content, 0, Least(I)) \o newTag
         \o substring(content, Least(I) + Len(tag))
replaceFirst(content, tag, newTag) ==
    replaceAt(content, tag, newTag,
              {i \in 0..(Len(content) - Len(tag)) : AtLit(content, i, tag)})

----------------------------------------------------------------------------
(* The inputs of a write-stage build *)

WritePool ==
    << <<"<", "s", "c", "r", "i", "p", "t", " ", "s", "r", "c", "=", "\"", "a", ".", "j", "s", "\"", ">", "<", "/", "s", "c", "r", "i", "p", "t", ">">>,
       <<"<", "s", "c", "r", "i", "p", "t", " ", "s", "r", "c", "=", "\"", "m", ".", "j", "s", "\"", ">", "<", "/", "s", "c", "r", "i", "p", "t", ">">>,
       <<"<", "s", "c", "r", "i", "p", "t", " ", "s", "r", "c", "=", "\"", "h", "t", "t", "p", "s", ":", "/", "/", "x", ".", "i", "o", "/", "a", ".", "j", "s", "\"", ">", "<", "/", "s", "c", "r", "i", "p", "t", ">">>,
       <<"<", "s", "c", "r", "i", "p", "t", " ", "d", "e", "f", "e", "r", " ", "s", "r", "c", "=", "\"", "h", "t", "t", "p", "s", ":", "/", "/", "x", ".", "i", "o", "/", "a", ".", "j", "s", "\"", ">", "<", "/", "s", "c", "r", "i", "p", "t", ">">>,
       <<"<", "s", "c", "r", "i", "p", "t", " ", "s", "r", "c", "=", "\"", "h", "t", "t", "p", "s", ":", "/", "/", "s", ".", "c", "d", "n", ".", "i", "o", ":", "8", "/", "a", ".", "j", "s", "\"", ">", "<", "/", "s", "c", "r", "i", "p", "t", ">">>,
       <<"<", "l", "i", "n", "k", " ", "r", "e", "l", "=", "\"", "s", "t", "y", "l", "e", "s", "h", "e", "e", "t", "\"", " ", "h", "r", "e", "f", "=", "\"", "/", "s", "t", "a", "t", "i", "c", "/", "b", "-", "1", "f", ".", "c", "s", "s", "\"", " ", "c", "r", "o", "s", "s", "o", "r", "i", "g", "i", "n", ">">> >>

RECURSIVE Page(_)
Page(sel) ==
    IF sel = <<>> THEN <<>>
    ELSE WritePool[Head(sel)] \o Gap \o Page(Tail(sel))

FileNames == << <<"i", "n", "d", "e", "x", ".", "h", "t", "m", "l">>, <<"a", "b", "o", "u", "t", ".", "h", "t", "m", "l">> >>

\* an HTML file the host hands to transformIndexHtml: source is the content
\* of its bundle entry, present whether the bundle has an entry under filename
HtmlFile(n, sel, present) ==
    [filename |-> FileNames[n], html |-> Page(sel), source |-> Page(sel),
     present |-> present]

\* the builds of the model: one file, or two files with the tags shared out
\* between them
Pages(n) == [1..n -> 1..Len(WritePool)]
WriteFiles ==
    {<<HtmlFile(1, sel, p)>> : sel \in UNION {Pages(n) : n \in 0..MaxTags},
                               p \in BOOLEAN}
    \cup {<<HtmlFile(1, s1, TRUE), HtmlFile(2, s2, TRUE)>> :
             s1 \in UNION {Pages(n) : n \in 1..(MaxTags - 1)},
             s2 \in UNION {Pages(n) : n \in 1..(MaxTags - 1)}}

\* const options = { ...DEFAULT_OPTIONS, ...userOptions }
UserOptions ==
    [algorithm : {<<"s", "h", "a", "2", "5", "6">>, <<"s", "h", "a", "3", "8", "4">>},
     bypassDomains : {{}, BypassDomains},
     crossorigin : {<<"a", "n", "o", "n", "y", "m", "o", "u", "s">>, <<"u", "s", "e", "-", "c", "r", "e", "d", "e", "n", "t", "i", "a", "l", "s">>},
     debug : {FALSE},
     ignoreMissingAsset : BOOLEAN]

\* the output options the host passes to writeBundle
OutputOptions == [dir |-> <<"d", "i", "s", "t">>, format |-> <<"e", "s">>]

\* the Access-Control-Allow-Origin header of a HEAD response
HeaderText(h) == IF h = "star" THEN <<"*">> ELSE <<"h", "t", "t", "p", "s", ":", "/", "/", "m", "y", ".", "s", "i", "t", "e">>

\* the body a server sends with a status outside 200..299
ErrorBody == Bytes("E")

InitWrite ==
    /\ files \in WriteFiles
    /\ bundle \in Bundles
    /\ options \in UserOptions
    /\ config \in {[command |-> c, base |-> <<"/">>, host |-> <<"m", "y", ".", "s", "i", "t", "e">>] :
                      c \in {"build", "serve"}}
    /\ plugin = [hook |-> "created", isBuild |-> FALSE, base |-> <<>>,
                 fed |-> 0, cur |-> 0, htmlFiles |-> <<>>,
                 sriCache |-> EmptyCache]
    /\ html = <<>>
    /\ htmlPath = <<>>
    /\ pc = "idle"
    /\ pass = 1
    /\ tasks = <<>>
    /\ changes = <<>>
    /\ applied = {}
    /\ out = <<>>
    /\ error = NoError
    /\ urlSupportCache = EmptyCache
    /\ resourceCache = EmptyCache
    /\ requests = {}
    /\ faults = 0
    /\ log = {}
    /\ first = NoFirst
    /\ NoUnits

----------------------------------------------------------------------------
(* The hooks.  Inside writeBundle(options, bundle) the name options is the
   hook's first parameter, the output options of the host: every read of
   options.… in the hook and in its callbacks goes to that object, never to
   the options of sri(). *)

ConsoleWarn(msg, url) == [level |-> "console.warn", msg |-> msg, url |-> url]
ConsoleError(msg, url) == [level |-> "console.error", msg |-> msg, url |-> url]

\* configResolved(config)
ConfigResolved ==
    /\ plugin.hook = "created"
    /\ options' = [k \in DOMAIN options \cup {"domain"} |->
                      IF k = "domain" THEN config.host ELSE options[k]]
    /\ plugin' = [plugin EXCEPT !.hook = "configured",
                                !.isBuild = (config.command = "build"),
                                !.base = config.base]
    /\ UNCHANGED <<html, bundle, config, htmlPath, pc, pass, tasks, changes,
                   applied, out, error, urlSupportCache, resourceCache,
                   requests, faults, log, first, files>>
    /\ UNCHANGED units

\* htmlFiles.set(filename, info): a Map keeps the place of a key it has
setFile(hf, info) ==
    IF \E i \in 1..Len(hf) : hf[i].filename = info.filename
    THEN [i \in 1..Len(hf) |->
            IF hf[i].filename = info.filename THEN info ELSE hf[i]]
    ELSE Append(hf, info)

\* transformIndexHtml(html, ctx) for the next file of the build
TransformIndexHtml ==
    /\ plugin.hook = "configured"
    /\ plugin.fed < Len(files)
    /\ \E f \in {files[plugin.fed + 1]} :
          plugin' = [plugin EXCEPT
              !.fed = plugin.fed + 1,
              !.htmlFiles =
                  IF ~plugin.isBuild \/ f.html = <<>> THEN plugin.htmlFiles
                  ELSE setFile(plugin.htmlFiles,
                               [filename |-> f.filename, content |-> f.html,
                                resources |-> resourceTags(f.html)])]
    /\ UNCHANGED <<html, bundle, options, config, htmlPath, pc, pass, tasks,
                   changes, applied, out, error, urlSupportCache,
                   resourceCache, requests, faults, log, first, files>>
    /\ UNCHANGED units

(* One callback of htmlInfo.resources.map(async ...).  st is "head" while
   externalResourceIsCorsEnabled awaits, "get" while fetch(url) awaits,
   "done" when the callback has returned; update is what it returned. *)
NoUpdate == [ok |-> FALSE, newTag |-> <<>>]
Update(newTag) == [ok |-> TRUE, newTag |-> newTag]
Callback(r, st, update, why) ==
    [tag |-> r.tag, url |-> r.url, type |-> r.type, st |-> st,
     update |-> update, why |-> why]

\* from "const source = ..." on, e being the entry found and h its digest
localHashed(r, o, h) ==
    IF h.ok THEN Callback(r, "done", Update(newTagOf(r.tag, h.hash, o)), "local")
    ELSE Callback(r, "done", NoUpdate, "digest")
localResource(r, o, found) ==
    IF found = 0 THEN Callback(r, "done", NoUpdate, "missing")
    ELSE IF bundle[found].content.kind = "throws"
    THEN Callback(r, "done", NoUpdate, "error")
    ELSE localHashed(r, o, computeSri(bundle[found].content, optAlgorithm(o)))

\* the callback up to its first await, o being what options names there
beginResource(r, o, sriCache, base) ==
    IF includes(r.tag, <<"i", "n", "t", "e", "g", "r", "i", "t", "y", "=">>) THEN Callback(r, "done", NoUpdate, "integrity")
    ELSE IF isExternalUrl(r.url)
    THEN IF isBypassDomain(r.url, optBypassDomains(o))
         THEN Callback(r, "done", NoUpdate, "bypass")
         ELSE IF r.url \in DOMAIN sriCache
         THEN Callback(r, "done", Update(sriCache[r.url]), "cached")
         ELSE Callback(r, "head", NoUpdate, "")
    ELSE localResource(r, o, firstHeld(bundle, possibleKeys(r.url, base)))

\* what the callback has written to the console when it returns
callbackLog(c, o) ==
    IF c.st # "done" THEN {}
    ELSE IF c.why = "missing" /\ ~optIgnoreMissingAsset(o)
    THEN {ConsoleWarn("Asset not found in bundle", c.url)}
    ELSE IF c.why = "error" /\ ~optIgnoreMissingAsset(o)
    THEN {ConsoleError("Failed to process asset", c.url)}
    ELSE IF c.why = "digest"
    THEN {ConsoleError("Failed to compute SRI hash", c.url)}
    ELSE {}

\* the updates applied in the order of the resources
RECURSIVE applyUpdates(_, _)
applyUpdates(content, cs) ==
    IF cs = <<>> THEN content
    ELSE applyUpdates(IF Head(cs).update.ok
                      THEN replaceFirst(content, Head(cs).tag, Head(cs).update.newTag)
                      ELSE content,
                      Tail(cs))

\* the callbacks of one file, each run to its first await
launch(info, o, sriCache, base) ==
    [k \in 1..Len(info.resources) |->
        beginResource(info.resources[k], o, sriCache, base)]

\* the loop of writeBundle enters the file htmlFiles[n]
EnterFile(n, sriCache) ==
    \E cs \in {launch(plugin.htmlFiles[n], OutputOptions, sriCache, plugin.base)} :
        /\ tasks' = cs
        /\ requests' = requests \cup InFlight(cs)
        /\ log' = log \cup UNION {callbackLog(cs[k], OutputOptions) : k \in 1..Len(cs)}

\* writeBundle(options, bundle) is called: with no file stored the loop is
\* skipped and the caches are cleared
WriteBundle ==
    /\ plugin.hook = "configured"
    /\ plugin.fed = Len(files)
    /\ IF plugin.htmlFiles = <<>>
       THEN /\ plugin' = [plugin EXCEPT !.hook = "written",
                                        !.sriCache = EmptyCache]
            /\ UNCHANGED <<tasks, requests, log>>
       ELSE /\ EnterFile(1, plugin.sriCache)
            /\ plugin' = [plugin EXCEPT !.hook = "writing", !.cur = 1]
    /\ UNCHANGED <<html, bundle, options, config, htmlPath, pc, pass, changes,
                   applied, out, error, urlSupportCache, resourceCache,
                   faults, first, files>>
    /\ UNCHANGED units

\* acao && (acao === '*' || acao.includes(options.domain || ''))
corsEnabled(r, o) ==
    /\ r.kind = "response"
    /\ r.header # "none"
    /\ \/ HeaderText(r.header) = <<"*">>
       \/ includes(HeaderText(r.header), optDomain(o))

\* externalResourceIsCorsEnabled after the HEAD came back; a rejected fetch
\* is caught and gives false
HeadBack(k, r) ==
    /\ plugin.hook = "writing"
    /\ k \in 1..Len(tasks)
    /\ tasks[k].st = "head"
    /\ HeadFault(r) => faults < MaxFaults
    /\ faults' = IF HeadFault(r) THEN faults + 1 ELSE faults
    /\ tasks' = [tasks EXCEPT ![k] =
                    IF corsEnabled(r, OutputOptions)
                    THEN [tasks[k] EXCEPT !.st = "get"]
                    ELSE [tasks[k] EXCEPT !.st = "done", !.why = "cors"]]
    /\ requests' = requests \cup
                     (IF corsEnabled(r, OutputOptions)
                      THEN {[method |-> "GET", url |-> tasks[k].url]} ELSE {})
    /\ log' = log \cup (IF r.kind = "response" THEN {}
                        ELSE {ConsoleError("Failed to fetch CORS headers",
                                           tasks[k].url)})
    /\ UNCHANGED <<html, bundle, options, config, htmlPath, pc, pass, changes,
                   applied, out, error, urlSupportCache, resourceCache,
                   first, files, plugin>>
    /\ UNCHANGED units

\* the bytes of response.arrayBuffer(): the status is not looked at
bodyOf(url, r) == IF r = "ok" THEN RemoteBody(url) ELSE ErrorBody

\* the callback once the bytes are hashed, h being what computeSri returned
fetched(c, h, o) ==
    IF h.ok
    THEN [c EXCEPT !.st = "done", !.why = "fetched",
                   !.update = Update(newTagOf(c.tag, h.hash, o))]
    ELSE [c EXCEPT !.st = "done", !.why = "digest"]

\* fetch(url) and arrayBuffer() have settled; a rejection of either is
\* caught and the callback returns null
GetBack(k, r) ==
    /\ plugin.hook = "writing"
    /\ k \in 1..Len(tasks)
    /\ tasks[k].st = "get"
    /\ GetFault(r) => faults < MaxFaults
    /\ faults' = IF GetFault(r) THEN faults + 1 ELSE faults
    /\ IF r \in {"ok", "status"}
       THEN \E c \in {fetched(tasks[k],
                              computeSri(bodyOf(tasks[k].url, r),
                                         optAlgorithm(OutputOptions)),
                              OutputOptions)} :
                /\ tasks' = [tasks EXCEPT ![k] = c]
                /\ plugin' = IF c.update.ok
                             THEN [plugin EXCEPT !.sriCache =
                                      cacheSet(plugin.sriCache, c.url,
                                               c.update.newTag)]
                             ELSE plugin
                /\ log' = log \cup callbackLog(c, OutputOptions)
       ELSE /\ tasks' = [tasks EXCEPT ![k] =
                            [tasks[k] EXCEPT !.st = "done", !.why = "fetch"]]
            /\ UNCHANGED <<plugin, log>>
    /\ UNCHANGED <<html, bundle, options, config, htmlPath, pc, pass, changes,
                   applied, out, error, urlSupportCache, resourceCache,
                   requests, first, files>>
    /\ UNCHANGED units

\* bundle[filename].source = content, if the bundle has the entry
written(fs, filename, content) ==
    [i \in 1..Len(fs) |->
        IF fs[i].filename = filename /\ fs[i].present
        THEN [fs[i] EXCEPT !.source = content] ELSE fs[i]]

(* Promise.all has resolved: the updates are applied, the content is written
   back, and the loop goes on to the next file; after the last one htmlFiles
   and sriCache are cleared. *)
WriteFile ==
    /\ plugin.hook = "writing"
    /\ \A k \in 1..Len(tasks) : tasks[k].st = "done"
    /\ files' = written(files, plugin.htmlFiles[plugin.cur].filename,
                        applyUpdates(plugin.htmlFiles[plugin.cur].content, tasks))
    /\ IF plugin.cur < Len(plugin.htmlFiles)
       THEN /\ EnterFile(plugin.cur + 1, plugin.sriCache)
            /\ plugin' = [plugin EXCEPT !.cur = plugin.cur + 1]
       ELSE /\ plugin' = [plugin EXCEPT !.hook = "written",
                                        !.htmlFiles = <<>>,
                                        !.sriCache = EmptyCache]
            /\ UNCHANGED <<tasks, requests, log>>
    /\ UNCHANGED <<html, bundle, options, config, htmlPath, pc, pass, changes,
                   applied, out, error, urlSupportCache, resourceCache,
                   faults, first>>
    /\ UNCHANGED units

NextWrite ==
    \/ ConfigResolved
    \/ TransformIndexHtml
    \/ WriteBundle
    \/ \E k \in DOMAIN tasks, r \in HeadResults : HeadBack(k, r)
    \/ \E k \in DOMAIN tasks, r \in GetResults : GetBack(k, r)
    \/ WriteFile

SpecWrite == InitWrite /\ [][NextWrite]_vars
----------------------------------------------------------------------------
(* The plugin object around transformHTML: configResolved looks for the
   host's plugin vite:build-import-analysis and wraps its generateBundle
   hook; the wrapped hook rewrites every HTML asset of the bundle with
   transformHTML and clears the caches.  This part of the repository is not
   among the sources; it is written down from the specification (Plugin
   Orchestrator, External Interfaces, Error Handling) and from what the
   tests of index.test.js do with it.  The documents are taken one after
   another: they share nothing but the two caches. *)

\* the plugins of the host's resolved config
PluginLists ==
    { <<>>,
      << <<"s", "o", "m", "e", "-", "o", "t", "h", "e", "r", "-", "p", "l", "u", "g", "i", "n">> >>,
      << <<"v", "i", "t", "e", ":", "b", "u", "i", "l", "d", "-", "i", "m", "p", "o", "r", "t", "-", "a", "n", "a", "l", "y", "s", "i", "s">> >>,
      << <<"s", "o", "m", "e", "-", "o", "t", "h", "e", "r", "-", "p", "l", "u", "g", "i", "n">>, <<"v", "i", "t", "e", ":", "b", "u", "i", "l", "d", "-", "i", "m", "p", "o", "r", "t", "-", "a", "n", "a", "l", "y", "s", "i", "s">> >> }

\* a host check that is content with any plugin at all
hasSomePlugin(plugins) == plugins # <<>>

\* config.plugins.find(p => p.name === 'vite:build-import-analysis')
hasBuildPlugin(plugins) ==
    \E i \in 1..Len(plugins) : plugins[i] = <<"v", "i", "t", "e", ":", "b", "u", "i", "l", "d", "-", "i", "m", "p", "o", "r", "t", "-", "a", "n", "a", "l", "y", "s", "i", "s">>

\* the tags of TagPool the HTML assets of a build are made of: a script
\* of the bundle, a stylesheet, a script the bundle lacks, an external one
BuildPool == {1, 2, 4, 6}

\* an HTML asset of the bundle: html is its content when the hook starts
HtmlAsset(n, sel) ==
    [filename |-> FileNames[n], html |-> Document(sel), source |-> Document(sel)]

BuildSelections(n) == [1..n -> BuildPool]
BuildFiles ==
    {<<>>}
    \cup {<<HtmlAsset(1, sel)>> : sel \in UNION {BuildSelections(n) : n \in 0..MaxTags}}
    \cup {<<HtmlAsset(1, s1), HtmlAsset(2, s2)>> :
             s1 \in UNION {BuildSelections(n) : n \in 1..(MaxTags - 1)},
             s2 \in UNION {BuildSelections(n) : n \in 1..(MaxTags - 1)}}

InitBuild ==
    /\ files \in BuildFiles
    /\ bundle \in Bundles
    /\ \E a \in Algorithms, i \in BOOLEAN :
          options = [hashAlgorithm |-> a, bypassDomains |-> BypassDomains,
                     ignoreMissingAsset |-> i]
    /\ config \in {[base |-> <<"/">>, plugins |-> ps] : ps \in PluginLists}
    /\ plugin = [hook |-> "created", cur |-> 0, failed |-> {}]
    /\ html = <<>>
    /\ htmlPath = <<>>
    /\ pc = "idle"
    /\ pass = 1
    /\ tasks = <<>>
    /\ changes = <<>>
    /\ applied = {}
    /\ out = <<>>
    /\ error = NoError
    /\ urlSupportCache = EmptyCache
    /\ resourceCache = EmptyCache
    /\ requests = {}
    /\ faults = 0
    /\ log = {}
    /\ first = NoFirst
    /\ NoUnits

FileError(filename) == [level |-> "error", msg |-> "Failed to process HTML file", url |-> filename]

\* configResolved(config): without the host's plugin the error
\* 'vite-plugin-sri4 requires Vite 2.0.0 or higher' is thrown
BuildConfigResolved ==
    /\ plugin.hook = "created"
    /\ IF hasBuildPlugin(config.plugins)
       THEN plugin' = [plugin EXCEPT !.hook = "configured"] /\ error' = error
       ELSE /\ plugin' = [plugin EXCEPT !.hook = "fatal"]
            /\ error' = [kind |-> "requires Vite 2.0.0 or higher", url |-> <<>>]
    /\ UNCHANGED <<html, bundle, options, config, htmlPath, pc, pass, tasks,
                   changes, applied, out, urlSupportCache, resourceCache,
                   requests, faults, log, first, files>>
    /\ UNCHANGED units

\* transformHTML is called on the HTML asset files[n]
TransformFile(n) ==
    /\ html' = files[n].source
    /\ htmlPath' = files[n].filename
    /\ pc' = "ready"
    /\ tasks' = <<>>
    /\ changes' = <<>>
    /\ applied' = {}
    /\ out' = <<>>
    /\ error' = NoError

\* the end of the hook: both caches are cleared
EndBuild ==
    /\ urlSupportCache' = EmptyCache
    /\ resourceCache' = EmptyCache

\* the wrapped generateBundle hook is called
GenerateBundle ==
    /\ plugin.hook = "configured"
    /\ IF files = <<>> \/ \A i \in 1..Len(files) : ~endsWith(files[i].filename, <<".", "h", "t", "m", "l">>)
       THEN /\ plugin' = [plugin EXCEPT !.hook = "generated"]
            /\ EndBuild
            /\ UNCHANGED <<html, htmlPath, pc, tasks, changes, applied, out, error>>
       ELSE /\ plugin' = [plugin EXCEPT !.hook = "generating", !.cur = 1]
            /\ TransformFile(1)
            /\ UNCHANGED <<urlSupportCache, resourceCache>>
    /\ UNCHANGED <<bundle, options, config, pass, requests, faults, log,
                   first, files>>
    /\ UNCHANGED units

\* a hook without the per-file catch: a failure ends it
goesOnUnlessFailed(failed) == ~failed

\* the per-file catch: the loop goes on to the next file whether or not the
\* transform of this one failed
goesOn(failed) == TRUE

(* transformHTML has returned or rejected for files[cur]: the returned text
   replaces the asset's content, a rejection is logged and leaves the
   content alone; then the next file, or the end of the hook. *)
FileDone ==
    /\ plugin.hook = "generating"
    /\ pc \in {"done", "rejected"}
    /\ files' = IF pc = "done"
                THEN [files EXCEPT ![plugin.cur].source = out]
                ELSE files
    /\ log' = IF pc = "done" THEN log
              ELSE log \cup {FileError(files[plugin.cur].filename)}
    /\ IF ~goesOn(pc = "rejected")
       THEN /\ plugin' = [plugin EXCEPT !.hook = "aborted",
                                        !.failed = plugin.failed \cup {plugin.cur}]
            /\ EndBuild
            /\ UNCHANGED <<html, htmlPath, pc, tasks, changes, applied, out, error>>
       ELSE IF plugin.cur < Len(files)
       THEN /\ plugin' = [plugin EXCEPT
                             !.cur = plugin.cur + 1,
                             !.failed = IF pc = "rejected"
                                        THEN plugin.failed \cup {plugin.cur}
                                        ELSE plugin.failed]
            /\ TransformFile(plugin.cur + 1)
            /\ UNCHANGED <<urlSupportCache, resourceCache>>
       ELSE /\ plugin' = [plugin EXCEPT
                             !.hook = "generated",
                             !.failed = IF pc = "rejected"
                                        THEN plugin.failed \cup {plugin.cur}
                                        ELSE plugin.failed]
            /\ EndBuild
            /\ UNCHANGED <<html, htmlPath, pc, tasks, changes, applied, out, error>>
    /\ UNCHANGED <<bundle, options, config, pass, requests, faults, first>>
    /\ UNCHANGED units

NextBuild ==
    \/ BuildConfigResolved
    \/ GenerateBundle
    \/ Next
    \/ FileDone

SpecBuild == InitBuild /\ [][NextBuild]_vars
----------------------------------------------------------------------------
(* Logger (logger.js), looked at on its own: a Logger is constructed with a
   level name, its four methods are called, and console records what was
   printed.  got is the list of the calls made. *)

MaxCalls == 3

\* this.levels
levels == [silent |-> 0, error |-> 1, warn |-> 2, info |-> 3, debug |-> 4]
Severities == {"error", "warn", "info", "debug"}

\* names that every object inherits from Object.prototype
Inherited == {"constructor"}

\* the level names a Logger is constructed with; "undefined" is the omitted
\* argument, "verbose" a name that this.levels does not have
LevelNames == DOMAIN levels \cup Inherited \cup {"verbose", "undefined"}

\* this.levels[logLevel]: a number, an inherited function, or undefined
levelValue(logLevel) ==
    IF logLevel \in DOMAIN levels THEN [kind |-> "number", n |-> levels[logLevel]]
    ELSE IF logLevel \in Inherited THEN [kind |-> "function", n |-> 0]
    ELSE [kind |-> "undefined", n |-> 0]

\* what || takes for true
truthy(v) == v.kind = "function" \/ (v.kind = "number" /\ v.n # 0)

\* this.levels[logLevel] || this.levels.warn
currentLevelOf(logLevel) ==
    IF truthy(levelValue(logLevel)) THEN levelValue(logLevel)
    ELSE levelValue("warn")

\* constructor(logLevel = 'warn', pluginName = DEFAULT_PLUGIN_NAME)
Logger(logLevel, pluginName) ==
    [logLevel |-> IF logLevel = "undefined" THEN "warn" ELSE logLevel,
     pluginName |-> pluginName,
     currentLevel |-> currentLevelOf(IF logLevel = "undefined" THEN "warn"
                                     ELSE logLevel)]

DEFAULT_PLUGIN_NAME == <<"v", "i", "t", "e", "-", "p", "l", "u", "g", "i", "n", "-", "s", "r", "i", "4">>

\* this.currentLevel >= this.levels[severity]; a function compares as NaN
atLeast(cur, severity) == cur.kind = "number" /\ cur.n >= levels[severity]

\* the messages given to the Logger: two strings and an Error object
Messages == {<<"A", "s", "s", "e", "t", " ", "n", "o", "t", " ", "f", "o", "u", "n", "d">>, <<>>, <<"object">>}

\* formatMessage(message): the arguments handed to the console method
formatMessage(pluginName, message) ==
    IF message \notin NotStrings
    THEN << <<"[">> \o pluginName \o <<"]">> \o <<" ">> \o message >>
    ELSE << <<"[">> \o pluginName \o <<"]">>, message >>

InitLogger ==
    /\ logger \in {Logger(l, DEFAULT_PLUGIN_NAME) : l \in LevelNames}
    /\ console = <<>>
    /\ got = <<>>
    /\ now = 0
    /\ items = EmptyCache
    /\ html = <<>>
    /\ bundle = <<>>
    /\ options = [logLevel |-> logger.logLevel]
    /\ config = [base |-> <<"/">>]
    /\ htmlPath = <<>>
    /\ pc = "idle"
    /\ pass = 1
    /\ tasks = <<>>
    /\ changes = <<>>
    /\ applied = {}
    /\ out = <<>>
    /\ error = NoError
    /\ urlSupportCache = EmptyCache
    /\ resourceCache = EmptyCache
    /\ requests = {}
    /\ faults = 0
    /\ log = {}
    /\ first = NoFirst
    /\ files = <<>>
    /\ plugin = NoPlugin

\* logger.error / warn / info / debug (message)
LoggerCall(severity, message) ==
    /\ Len(got) < MaxCalls
    /\ got' = Append(got, [method |-> severity, message |-> message])
    /\ console' = IF atLeast(logger.currentLevel, severity)
                  THEN Append(console,
                              [method |-> severity,
                               args |-> formatMessage(logger.pluginName, message)])
                  ELSE console
    /\ UNCHANGED <<logger, now, items>>
    /\ UNCHANGED <<html, bundle, options, config, htmlPath, pc, pass, tasks,
                   changes, applied, out, error, urlSupportCache,
                   resourceCache, requests, faults, log, first, files, plugin>>

\* logger.child(name) takes the place of the logger
LoggerChild(name) ==
    /\ logger.pluginName = DEFAULT_PLUGIN_NAME
    /\ logger' = Logger(logger.logLevel, logger.pluginName \o <<":">> \o name)
    /\ UNCHANGED <<console, now, items, got>>
    /\ UNCHANGED <<html, bundle, options, config, htmlPath, pc, pass, tasks,
                   changes, applied, out, error, urlSupportCache,
                   resourceCache, requests, faults, log, first, files, plugin>>

NextLogger ==
    \/ \E s \in Severities, m \in Messages : LoggerCall(s, m)
    \/ LoggerChild(<<"n", "e", "t">>)

SpecLogger == InitLogger /\ [][NextLogger]_vars

----------------------------------------------------------------------------
(* ResourceCache (cache.js) with its clock, looked at on its own.  items is
   the instance: its Map (key -> value and expiry) and its ttl; now is
   Date.now(), which only moves forward; got is what the last get or has
   returned.  The hour of the default ttl is scaled down to a few ticks. *)

MaxTime == 4

Keys == {<<"h", "t", "t", "p", "s", ":", "/", "/", "x", ".", "i", "o", "/", "a", ".", "j", "s">>, <<"h", "t", "t", "p", "s", ":", "/", "/", "y", ".", "i", "o", "/", "b", ".", "j", "s">>}

\* what is stored: the verdicts of checkResourceSupport, undefined among them
Values == {"true", "false", "undefined"}

\* new ResourceCache(ttl)
Ttls == {1, 2}
ResourceCache(ttl) == [cache |-> EmptyCache, ttl |-> ttl]

\* an entry is taken for expired from the very tick of its expiry
isExpiredAt(t, expiry) == t >= expiry

\* Date.now() > item.expiry
isExpired(t, expiry) == t > expiry

\* this.cache.delete(key)
mapDelete(m, key) == [k \in DOMAIN m \ {key} |-> m[k]]

\* get(key) at time t: the value returned and the Map afterwards
get(c, key, t) ==
    IF key \notin DOMAIN c.cache
    THEN [value |-> "undefined", cache |-> c.cache]
    ELSE IF isExpired(t, c.cache[key].expiry)
    THEN [value |-> "undefined", cache |-> mapDelete(c.cache, key)]
    ELSE [value |-> c.cache[key].value, cache |-> c.cache]

\* set(key, value) at time t
set(c, key, value, t) ==
    [k \in DOMAIN c.cache \cup {key} |->
        IF k = key THEN [value |-> value, expiry |-> t + c.ttl] ELSE c.cache[k]]

\* has(key) at time t: this.get(key) !== undefined
has(c, key, t) ==
    [held |-> get(c, key, t).value # "undefined", cache |-> get(c, key, t).cache]

InitCache ==
    /\ items \in {ResourceCache(ttl) : ttl \in Ttls}
    /\ now = 0
    /\ got = NoResult
    /\ logger = NoLogger
    /\ console = <<>>
    /\ html = <<>>
    /\ bundle = <<>>
    /\ options = [ttl |-> items.ttl]
    /\ config = [base |-> <<"/">>]
    /\ htmlPath = <<>>
    /\ pc = "idle"
    /\ pass = 1
    /\ tasks = <<>>
    /\ changes = <<>>
    /\ applied = {}
    /\ out = <<>>
    /\ error = NoError
    /\ urlSupportCache = EmptyCache
    /\ resourceCache = EmptyCache
    /\ requests = {}
    /\ faults = 0
    /\ log = {}
    /\ first = NoFirst
    /\ files = <<>>
    /\ plugin = NoPlugin

\* everything but the cache, its clock and the last result
CacheFrame ==
    /\ UNCHANGED <<logger, console>>
    /\ UNCHANGED <<html, bundle, options, config, htmlPath, pc, pass, tasks,
                   changes, applied, out, error, urlSupportCache,
                   resourceCache, requests, faults, log, first, files, plugin>>

CacheSet(key, value) ==
    /\ items' = [items EXCEPT !.cache = set(items, key, value, now)]
    /\ got' = [op |-> "set", key |-> key, value |-> value, removed |-> FALSE]
    /\ now' = now
    /\ CacheFrame

CacheGet(key) ==
    /\ items' = [items EXCEPT !.cache = get(items, key, now).cache]
    /\ got' = [op |-> "get", key |-> key, value |-> get(items, key, now).value,
               removed |-> key \in DOMAIN items.cache
                           /\ key \notin DOMAIN get(items, key, now).cache]
    /\ now' = now
    /\ CacheFrame

CacheHas(key) ==
    /\ items' = [items EXCEPT !.cache = has(items, key, now).cache]
    /\ got' = [op |-> "has", key |-> key,
               value |-> IF has(items, key, now).held THEN "true" ELSE "false",
               removed |-> key \in DOMAIN items.cache
                           /\ key \notin DOMAIN has(items, key, now).cache]
    /\ now' = now
    /\ CacheFrame

\* clear()
CacheClear ==
    /\ items' = [items EXCEPT !.cache = EmptyCache]
    /\ got' = [op |-> "clear", key |-> <<>>, value |-> "undefined", removed |-> FALSE]
    /\ now' = now
    /\ CacheFrame

\* time passes
Tick ==
    /\ now < MaxTime
    /\ now' = now + 1
    /\ UNCHANGED <<items, got>>
    /\ CacheFrame

NextCache ==
    \/ \E key \in Keys, value \in Values : CacheSet(key, value)
    \/ \E key \in Keys : CacheGet(key)
    \/ \E key \in Keys : CacheHas(key)
    \/ CacheClear
    \/ Tick

SpecCache == InitCache /\ [][NextCache]_vars
----------------------------------------------------------------------------
(* Reading a run: what the properties below speak about *)

Done == pc = "done"

\* the text of the k-th matched tag in the document given to transformHTML
InTag(k) == slice(html, tasks[k].index, tasks[k].end)

\* the tasks whose change was spliced into the document
Spliced == {k \in DOMAIN tasks : tasks[k].st = "ok" /\ tasks[k].position \in applied}

\* the number of characters the tasks of ks put in front of offset p
RECURSIVE Width(_, _, _)
Width(ks, k, p) ==
    IF k = 0 THEN 0
    ELSE Width(ks, k - 1, p)
         + (IF k \in ks /\ tasks[k].position < p
            THEN Len(insertText(tasks[k].integrity)) ELSE 0)

\* where offset p of the given document is in the returned one
Shift(p) == p + Width(Spliced, Len(tasks), p)

\* the text of the k-th matched tag in the returned document
OutTag(k) == slice(out, Shift(tasks[k].index), Shift(tasks[k].end))

\* a url that names a file of the build, not a host
InternalReference(url) == ~startsWith(url, <<"h", "t", "t", "p">>) /\ ~startsWith(url, <<"/", "/">>)

\* a url (with a scheme, or protocol-relative) whose host is a bypass domain
\* or a subdomain of one
BypassedReference(url) ==
    LET full == IF startsWith(url, <<"/", "/">>) THEN <<"h", "t", "t", "p", "s", ":">> \o url ELSE url
    IN  /\ urlParses(full)
        /\ \E domain \in options.bypassDomains :
              \/ hostname(full) = domain
              \/ endsWith(hostname(full), <<".">> \o domain)

\* an internal url that no bundle key matches, exactly or loosely
MissingAsset(url) ==
    /\ InternalReference(url)
    /\ calculateInternal(bundle, htmlPath, url, options, config).used = 0

----------------------------------------------------------------------------
(* C1: for an internal reference the digest injected into a tag is the
   algorithm, a dash, and the digest of the content of the bundle entry the
   url designates (the entry under the key getBundleKey computes), never of
   another entry. *)
C1_DigestOfDesignatedEntry ==
    Done =>
        \A k \in Spliced :
            InternalReference(tasks[k].url) =>
                LET key == getBundleKey(htmlPath, tasks[k].url, config)
                IN  /\ HasKey(bundle, key)
                    /\ tasks[k].integrity
                         = sriString(options.hashAlgorithm,
                                     Entry(bundle, key).content.id)

\* what does hold of C1: the injected digest is that of the entry the lookup
\* settled on (the exact key, or else the first key that matches loosely)
DigestOfEntryUsed ==
    Done =>
        \A k \in Spliced :
            InternalReference(tasks[k].url) =>
                LET r == calculateInternal(bundle, htmlPath, tasks[k].url,
                                           options, config)
                IN  /\ r.used > 0
                    /\ tasks[k].integrity
                         = sriString(options.hashAlgorithm,
                                     bundle[r.used].content.id)

(* C2: every tag that is rewritten gains, besides integrity, a crossorigin
   attribute when it had none. *)
C2_RewrittenTagGainsCrossorigin ==
    Done =>
        \A k \in Spliced :
            /\ includes(OutTag(k), <<"i", "n", "t", "e", "g", "r", "i", "t", "y", "=", "\"">> \o tasks[k].integrity \o <<"\"">>)
            /\ includes(OutTag(k), <<"c", "r", "o", "s", "s", "o", "r", "i", "g", "i", "n", "=">>)

\* what does hold of C2: a rewritten tag is the given tag with the integrity
\* attribute put before its closing '>', and nothing else
OnlyIntegrityAdded ==
    Done =>
        \A k \in Spliced :
            LET at == tasks[k].position - tasks[k].index
            IN  OutTag(k) = slice(InTag(k), 0, at)
                            \o insertText(tasks[k].integrity)
                            \o substring(InTag(k), at)

(* C3: transformHTML is idempotent.  Transforming the document a first
   transformHTML returned, with the same bundle, options and caches, and
   with every resource resolving as it did the first time, returns that
   document unchanged. *)
SameResolutions ==
    /\ Len(tasks) = Len(first.tasks)
    /\ \A k \in DOMAIN tasks : tasks[k].st = first.tasks[k].st

C3_SecondTransformChangesNothing ==
    (pass = 2 /\ Done /\ SameResolutions) => out = html

\* what does hold of C3: the second transform changes nothing when the
\* digest is not a sha512 one
IdempotentBelowSha512 ==
    (pass = 2 /\ Done /\ SameResolutions /\ options.hashAlgorithm # <<"s", "h", "a", "5", "1", "2">>)
        => out = html

(* C4: a tag that already carries an integrity attribute, whatever its
   value, is left byte for byte as it was. *)
C4_TagWithIntegrityIsLeftAlone ==
    Done =>
        \A k \in DOMAIN tasks :
            includes(InTag(k), <<"i", "n", "t", "e", "g", "r", "i", "t", "y", "=">>) => OutTag(k) = InTag(k)

(* C5: in a document whose qualifying tags all resolve, each tag's integrity
   attribute is in the returned document, inside that tag and immediately
   before its closing '>', at the offset computed on the given document
   (moved only by the attributes of the tags before it). *)
C5_EachResolvedTagRewrittenInPlace ==
    (/\ Done
     /\ \A k \in DOMAIN tasks : tasks[k].st = "ok"
     /\ ~includes(html, <<"i", "n", "t", "e", "g", "r", "i", "t", "y", "=">>))
        => \A k \in DOMAIN tasks :
              AtLit(out,
                    tasks[k].position
                      + Width(DOMAIN tasks, Len(tasks), tasks[k].position),
                    insertText(tasks[k].integrity) \o <<">">>)

\* what does hold of C5: every attribute that is spliced sits immediately
\* before the closing '>' of its own tag, whatever order the changes were
\* collected in
SplicedInPlace ==
    Done =>
        /\ Len(out) = Shift(Len(html))
        /\ \A k \in Spliced :
              AtLit(out, Shift(tasks[k].position),
                    insertText(tasks[k].integrity) \o <<">">>)

(* C6: when several qualifying tags of a document reference the same
   resource, every one of them receives its own integrity attribute. *)
C6_SameResourceTagsAllRewritten ==
    (Done /\ ~includes(html, <<"i", "n", "t", "e", "g", "r", "i", "t", "y", "=">>)) =>
        \A j, k \in DOMAIN tasks :
            (/\ j # k
             /\ tasks[j].url = tasks[k].url
             /\ tasks[j].st = "ok"
             /\ tasks[k].st = "ok")
                => tasks[j].position \in applied

(* C7: a tag whose url (http://, https:// or protocol-relative) has a
   bypassed host never receives an integrity attribute, and no HEAD or GET
   request is issued for that url. *)
C7_BypassedHostUntouched ==
    \A k \in DOMAIN tasks :
        BypassedReference(tasks[k].url) =>
            /\ tasks[k].st # "ok"
            /\ tasks[k].position \notin applied
            /\ \A r \in requests : r.url # tasks[k].url

\* what does hold of C7: no request is issued for a bypassed url, and a url
\* with a scheme and a bypassed host resolves with null
BypassedSchemeUrlUntouched ==
    \A k \in DOMAIN tasks :
        BypassedReference(tasks[k].url) =>
            /\ \A r \in requests : r.url # tasks[k].url
            /\ startsWith(tasks[k].url, <<"h", "t", "t", "p">>) => tasks[k].st = "null"

(* C8: CORS gating of an external url that is not bypassed.  When the HEAD
   response carries no Access-Control-Allow-Origin header the tag is left
   unmodified and no error is raised; when the HEAD response is 2xx with
   header * and the GET succeeds, the tag gains an integrity attribute. *)
Fetched(k) ==
    /\ tasks[k].cors = "star"
    /\ tasks[k].st \notin {"head", "get"}
    /\ tasks[k].why # "fetch"

C8_CorsGating ==
    \A k \in DOMAIN tasks :
        /\ tasks[k].cors = "no header" =>
              /\ tasks[k].st = "null"
              /\ tasks[k].position \notin applied
        /\ Fetched(k) =>
              /\ tasks[k].st = "ok"
              /\ Done => tasks[k].position \in applied

\* what does hold of C8: the no-header half, and the other half for a
\* supported algorithm up to the splice
CorsGatingUpToSplice ==
    \A k \in DOMAIN tasks :
        /\ tasks[k].cors = "no header" =>
              /\ tasks[k].st = "null"
              /\ tasks[k].position \notin applied
        /\ (Fetched(k) /\ options.hashAlgorithm \in SupportedAlgorithms) =>
              /\ tasks[k].st = "ok"
              /\ Done => \E c \in DOMAIN changes :
                            /\ changes[c].position = tasks[k].position
                            /\ changes[c].url = tasks[k].url

(* C9: a document with an internal url that matches no bundle entry.  With
   ignoreMissingAsset the tag is skipped with a warning and transformHTML
   completes normally, the tag unchanged; without it transformHTML fails
   with the missing-asset error and returns no document. *)
C9_MissingAssetPolicy ==
    \A k \in DOMAIN tasks :
        MissingAsset(tasks[k].url) =>
            IF options.ignoreMissingAsset
            THEN /\ tasks[k].st = "null"
                 /\ Warn("Asset not found in bundle", tasks[k].url) \in log
                 /\ pc # "rejected"
                 /\ Done => OutTag(k) = InTag(k)
            ELSE /\ pc = "rejected"
                 /\ error.kind = "throw_missing"
                 /\ out = <<>>

\* what does hold of C9: the same, except that the rejection of another tag
\* can come first
MissingAssetPolicyPerTag ==
    \A k \in DOMAIN tasks :
        MissingAsset(tasks[k].url) =>
            IF options.ignoreMissingAsset
            THEN /\ tasks[k].st = "null"
                 /\ Warn("Asset not found in bundle", tasks[k].url) \in log
                 /\ Done => OutTag(k) = InTag(k)
            ELSE /\ tasks[k].st = "throw_missing"
                 /\ pc = "rejected"
                 /\ out = <<>>

(* C10: a digest computation that fails for one tag (unsupported algorithm,
   content that is neither a string nor bytes, a getter that throws) makes
   the integrity calculation return null; no exception propagates through
   the batch. *)
C10_DigestFailureIsContained ==
    /\ error.kind # "throw_digest"
    /\ \A k \in DOMAIN tasks : tasks[k].st # "throw_digest"

----------------------------------------------------------------------------
(* C11: a network failure while resolving one external tag (timeout,
   connection error, bad status, unreadable body) is not fatal: the tag
   gets no integrity attribute and every other tag is rewritten exactly as
   it would have been had the resource resolved. *)

\* the tasks that ended on a network failure
NetworkFailed ==
    {k \in DOMAIN tasks :
        /\ tasks[k].st = "null"
        /\ \/ tasks[k].why = "fetch"
           \/ tasks[k].why = "cors" /\ tasks[k].cors = "failed"}

\* the tasks as they would stand had the resource of task k resolved
AsIfResolved(k) ==
    [tasks EXCEPT
        ![k].st = "ok",
        ![k].integrity = sriString(options.hashAlgorithm,
                                   RemoteBody(tasks[k].url).id)]

\* the positions spliced for the changes of the tasks ts
SplicesOf(ts) ==
    applyIntegrityChanges(html,
        Concat([p \in 1..3 |-> patternChanges(ts, PatternNames[p])])).applied

C11_NetworkFailureLeavesOthersAlone ==
    (Done /\ options.hashAlgorithm \in SupportedAlgorithms) =>
        \A k \in NetworkFailed :
            /\ tasks[k].position \notin applied
            /\ \A j \in DOMAIN tasks \ {k} :
                  tasks[j].position \in applied
                    <=> tasks[j].position \in SplicesOf(AsIfResolved(k))

\* what does hold of C11: the failure is logged and resolves the tag with
\* null, it rejects nothing, and the change of every other resolved tag is
\* handed to applyIntegrityChanges
NetworkFailureContained ==
    \A k \in NetworkFailed :
        /\ tasks[k].position \notin applied
        /\ \/ Warn("Failed to fetch external resource", tasks[k].url) \in log
           \/ Warn("Failed to check resource support", tasks[k].url) \in log
        /\ pc = "rejected" => \E j \in DOMAIN tasks : tasks[j].st \in Thrown
        /\ Done => \A j \in DOMAIN tasks :
                      tasks[j].st = "ok" =>
                          \E c \in DOMAIN changes :
                              /\ changes[c].position = tasks[j].position
                              /\ changes[c].integrity = tasks[j].integrity


----------------------------------------------------------------------------
\* the documents made of plain markup, unterminated and malformed tags only
PlainDocuments ==
    {Document(sel) : sel \in UNION {[1..n -> PlainPool] : n \in 1..MaxTags}}

\* the input is no string, is empty, or holds nothing the patterns match
NothingToRewrite ==
    \/ ~validateHtmlInput(html)
    \/ AllMatches(html) = <<>>

(* C12: transformHTML returns its input unchanged, without throwing and
   without any bundle lookup or network call, whenever the input is not a
   string, is the empty string, or contains no script/link tag that the
   patterns match; plain HTML, malformed and unterminated tags are such
   inputs. *)
C12_NothingToRewriteIsReturnedAsIs ==
    /\ html \in PlainDocuments => AllMatches(html) = <<>>
    /\ NothingToRewrite =>
          /\ pc # "rejected" /\ error = NoError
          /\ tasks = <<>>
          /\ requests = {}
          /\ pc = "done" => out = html /\ applied = {}

\* an unterminated script tag has gone through transformHTML
C12_Witness_Unterminated ==
    /\ pc = "done"
    /\ html \in PlainDocuments
    /\ includes(html, <<"<", "s", "c", "r", "i", "p", "t", " ", "s", "r", "c", "=", "\"", "a", ".", "j", "s", "\"", ">">>)
    /\ out = html

----------------------------------------------------------------------------
\* the tags whose url carries a query string or a fragment and equals no
\* bundle key
QueryReferences ==
    {k \in DOMAIN tasks :
        /\ includes(tasks[k].url, <<"?">>) \/ includes(tasks[k].url, <<"#">>)
        /\ ~IsExternal(tasks[k].url)
        /\ ~HasKey(bundle, getBundleKey(htmlPath, tasks[k].url, config))}

\* the reference was not found: skipped as missing, or the missing-asset error
NotFound(t) ==
    \/ t.st = "null" /\ t.why = "missing"
    \/ t.st = "throw_missing"

(* C13: a URL carrying a query string or fragment is looked up as written:
   when no bundle key equals it the reference is NOT_FOUND even if the
   bundle holds the same path without the query, and transforming
   <script src="a.js?v=1"></script> against a bundle whose only matching
   key is a.js yields the original string unmodified. *)
C13_QueryUrlYieldsOriginal ==
    /\ \A k \in QueryReferences : NotFound(tasks[k])
    /\ (/\ html = <<"<", "s", "c", "r", "i", "p", "t", " ", "s", "r", "c", "=", "\"", "a", ".", "j", "s", "?", "v", "=", "1", "\"", ">", "<", "/", "s", "c", "r", "i", "p", "t", ">">> \o Gap
        /\ HasKey(bundle, <<"a", ".", "j", "s">>)
        /\ pc # "ready")
          => /\ pc # "rejected"
             /\ pc = "done" => out = html

\* what holds: the query is kept in the key, the reference is not found,
\* the tag is never spliced, and the document comes back as it was
\* whenever transformHTML returns at all
QueryUrlLookedUpAsWritten ==
    \A k \in QueryReferences :
        /\ getBundleKey(htmlPath, tasks[k].url, config) = tasks[k].url
        /\ NotFound(tasks[k])
        /\ tasks[k].st = "throw_missing" <=> ~options.ignoreMissingAsset
        /\ tasks[k].position \notin applied
        /\ (pc = "done" /\ Len(tasks) = 1) => out = html
        /\ pc = "rejected" => out = <<>>

----------------------------------------------------------------------------
\* a data: or javascript: url
SchemeUrl(url) == startsWith(url, <<"d", "a", "t", "a", ":">>) \/ startsWith(url, <<"j", "a", "v", "a", "s", "c", "r", "i", "p", "t", ":">>)

(* C14: a script or link tag whose URL uses the data: or javascript:
   scheme is never treated as a resource reference: it triggers no bundle
   lookup, no network call and no missing-asset error, and the tag is left
   unchanged. *)
C14_SchemeUrlIsNoReference ==
    /\ \A k \in DOMAIN tasks : ~SchemeUrl(tasks[k].url)
    /\ ~SchemeUrl(error.url)
    /\ \A k \in DOMAIN tasks :
          SchemeUrl(tasks[k].url) =>
              /\ Request(tasks[k]) \notin requests
              /\ Warn("Asset not found in bundle", tasks[k].url) \notin log
              /\ tasks[k].position \notin applied

\* what holds: such a url goes through the bundle lookup like any internal
\* url, is never requested over the network, and, matching no key of the
\* bundles here, is never spliced
SchemeUrlIsLookedUp ==
    \A k \in DOMAIN tasks :
        SchemeUrl(tasks[k].url) =>
            /\ NotFound(tasks[k])
            /\ \A m \in {"HEAD", "GET"} :
                  [method |-> m, url |-> tasks[k].url] \notin requests
            /\ tasks[k].position \notin applied

----------------------------------------------------------------------------
\* checkResourceSupport returned for task k when the HEAD came back with the
\* response r: the verdict is what it has put in the cache
CheckedWith(k, r) == HeadReturns(k, r) /\ r.kind = "response"
verdict(k) == urlSupportCache'[tasks[k].url]

(* C15: the CORS capability check returns true exactly when the HEAD
   response is 2xx-class and its Access-Control-Allow-Origin header equals
   * or contains the configured origin/domain; for every other response
   (another header value, a missing header, a non-2xx status) it returns
   false. *)
C15_CorsVerdict ==
    [][\A k \in DOMAIN tasks, r \in HeadResults :
          CheckedWith(k, r) =>
              verdict(k) = IF r.ok /\ r.header \in {"star", "origin"}
                           THEN "true" ELSE "false"]_vars

\* what holds: true exactly for a 2xx response whose header holds a *,
\* undefined for a 2xx response without the header, false otherwise
CorsVerdictOfStar ==
    [][\A k \in DOMAIN tasks, r \in HeadResults :
          CheckedWith(k, r) =>
              /\ verdict(k) = "true" <=> r.ok /\ r.header = "star"
              /\ verdict(k) = "undefined" <=> r.ok /\ r.header = "none"
              /\ verdict(k) = "true" <=> tasks'[k].st # "null"]_vars

----------------------------------------------------------------------------
\* a transformHTML call begins: every calculateIntegrity call of the
\* document runs up to its first await
Begins == pc = "ready" /\ pc' # "ready"

\* checkResourceSupport(url) has completed before
Checked(url) == url \in DOMAIN urlSupportCache

(* C16: once checkResourceSupport(url) has completed with any outcome
   (supported, non-matching header, missing header, non-2xx, network error
   or timeout), every later checkResourceSupport(url) made before the cache
   is cleared or the entry expires returns the same verdict without issuing
   a HEAD request. *)
C16_VerdictIsCached ==
    [][Begins =>
          \A k \in DOMAIN tasks' :
              Checked(tasks'[k].url) =>
                  /\ tasks'[k].st # "head"
                  /\ tasks'[k].cors = "cached"]_vars

\* what holds: a verdict of true or false is returned from the cache
\* without a request; the undefined verdict (2xx, no header) is stored but
\* never found again, since has() is "get(key) !== undefined"
DefinedVerdictIsCached ==
    [][Begins =>
          \A k \in DOMAIN tasks' :
              Checked(tasks'[k].url) =>
                  IF urlSupportCache[tasks'[k].url] = "undefined"
                  THEN tasks'[k].st = "head"
                  ELSE /\ tasks'[k].cors = "cached"
                       /\ tasks'[k].st # "head"
                       /\ urlSupportCache[tasks'[k].url] = "true"
                             <=> tasks'[k].st # "null"]_vars

----------------------------------------------------------------------------
(* C17: a call to fetchResource(url) on a cache miss makes at most 2 GET
   attempts (one retry), makes no second attempt after a timeout, and ends
   either with the response bytes, which are then stored in the content
   cache, or with null after a non-2xx status or thrown error, in which
   case the content cache is left unchanged. *)
C17_FetchAttempts ==
    [][\A k \in DOMAIN tasks, r \in GetResults :
          GetReturns(k, r) =>
              /\ tasks[k].attempt + 1 <= 2
              /\ r = "abort" => tasks'[k].st # "get"
              /\ IF tasks'[k].st = "get"
                 THEN /\ r \in {"status", "body", "error"}
                      /\ tasks'[k].attempt = tasks[k].attempt + 1
                      /\ resourceCache' = resourceCache
                 ELSE IF r = "ok"
                 THEN /\ resourceCache' =
                            cacheSet(resourceCache, tasks[k].url,
                                     RemoteBody(tasks[k].url))
                      /\ tasks'[k] = Hashed(tasks[k], RemoteBody(tasks[k].url))
                 ELSE /\ tasks'[k].st = "null"
                      /\ tasks'[k].why = "fetch"
                      /\ resourceCache' = resourceCache]_vars

\* both GET attempts for a url have failed and nothing was cached for it
C17_Witness_SecondAttemptFailed ==
    \E k \in DOMAIN tasks :
        /\ tasks[k].st = "null"
        /\ tasks[k].why = "fetch"
        /\ tasks[k].attempt = FetchRetries
        /\ ~resourceHas(resourceCache, tasks[k].url)

----------------------------------------------------------------------------
\* the url of callback k was requested over the network
Requested(url) ==
    \E m \in {"HEAD", "GET"} : [method |-> m, url |-> url] \in requests

(* C18: in the write-stage variant the rewriting done in writeBundle is
   governed by the options given to sri(): the digest is computed with
   options.algorithm, an added crossorigin attribute has the value
   options.crossorigin, URLs of options.bypassDomains are skipped without
   any network call, and ignoreMissingAsset suppresses the missing-asset
   warning. *)
C18_WriteBundleFollowsOptions ==
    \A k \in DOMAIN tasks :
        /\ tasks[k].update.ok =>
              /\ includes(tasks[k].update.newTag,
                          <<" ", "i", "n", "t", "e", "g", "r", "i", "t", "y", "=", "\"">> \o options.algorithm \o <<"-">>)
              /\ ~hasCrossOriginAttr(tasks[k].tag) =>
                    includes(tasks[k].update.newTag,
                             <<" ", "c", "r", "o", "s", "s", "o", "r", "i", "g", "i", "n", "=", "\"">> \o options.crossorigin \o <<"\"">>)
        /\ isBypassDomain(tasks[k].url, options.bypassDomains) =>
              /\ ~tasks[k].update.ok
              /\ ~Requested(tasks[k].url)
        /\ options.ignoreMissingAsset =>
              ConsoleWarn("Asset not found in bundle", tasks[k].url) \notin log

\* what holds: the hook reads the four settings from the output options,
\* which have none of them
WriteBundleFollowsOutputOptions ==
    \A k \in DOMAIN tasks :
        /\ tasks[k].update.ok =>
              /\ includes(tasks[k].update.newTag, <<" ", "i", "n", "t", "e", "g", "r", "i", "t", "y", "=", "\"", "s", "h", "a", "3", "8", "4", "-">>)
              /\ ~hasCrossOriginAttr(tasks[k].tag) =>
                    includes(tasks[k].update.newTag, <<" ", "c", "r", "o", "s", "s", "o", "r", "i", "g", "i", "n", "=", "\"", "u", "n", "d", "e", "f", "i", "n", "e", "d", "\"">>)
        /\ tasks[k].why # "bypass"
        /\ (isExternalUrl(tasks[k].url) /\ plugin.sriCache = EmptyCache
            /\ plugin.hook = "writing")
              => Requested(tasks[k].url)
        /\ tasks[k].why = "missing" =>
              ConsoleWarn("Asset not found in bundle", tasks[k].url) \in log

----------------------------------------------------------------------------
\* the entry of the bundle the reference url of the HTML asset h resolves to
EntryFor(h, url) ==
    calculateInternal(bundle, h.filename, url, options, config).used

\* the content of h carries the digest of the bundle entry e
CarriesDigestOf(h, e) ==
    includes(h.source, <<"i", "n", "t", "e", "g", "r", "i", "t", "y", "=", "\"">>
                       \o sriString(options.hashAlgorithm, bundle[e].content.id)
                       \o <<"\"">>)

\* every reference of h to text or bytes of the bundle has its digest in h
RewrittenIn(h, ms) ==
    \A k \in DOMAIN ms :
        (/\ InternalReference(ms[k].url)
         /\ EntryFor(h, ms[k].url) > 0
         /\ bundle[EntryFor(h, ms[k].url)].content.kind \in {"string", "bytes"})
            => CarriesDigestOf(h, EntryFor(h, ms[k].url))
Rewritten(h) == RewrittenIn(h, AllMatches(h.html))

(* C19: when transformHTML fails for one HTML asset of the bundle (a missing
   asset with ignoreMissingAsset false), the failure is logged and the
   asset keeps the content it had before; the hook is not aborted, and
   when it has ended every other HTML asset is rewritten. *)
C19_PerFileIsolation ==
    /\ \A i \in plugin.failed :
          /\ files[i].source = files[i].html
          /\ FileError(files[i].filename) \in log
    /\ plugin.failed # {} => plugin.hook \in {"generating", "generated"}
    /\ plugin.hook = "generated" =>
          \A j \in DOMAIN files : j \notin plugin.failed => Rewritten(files[j])

\* the first HTML asset failed for a missing asset, the second one has the
\* digest of a.js, and the hook has ended
C19_Witness_OneFailedOtherRewritten ==
    /\ plugin.hook = "generated"
    /\ plugin.failed = {1}
    /\ Len(files) = 2
    /\ files[1].html = Document(<<4>>)
    /\ ~options.ignoreMissingAsset
    /\ files[2].html = Document(<<1>>)
    /\ files[2].source # files[2].html
    /\ CarriesDigestOf(files[2], 1)

(* C20: configResolved raises the error 'requires Vite 2.0.0 or higher'
   exactly when config.plugins has no plugin named
   vite:build-import-analysis, be the list empty or made of other plugins;
   with that plugin in the list nothing is raised. *)
C20_ConfigResolvedNeedsBuildPlugin ==
    plugin.hook # "created" =>
        /\ (\A i \in DOMAIN config.plugins :
               config.plugins[i] # <<"v", "i", "t", "e", ":", "b", "u", "i", "l", "d", "-", "i", "m", "p", "o", "r", "t", "-", "a", "n", "a", "l", "y", "s", "i", "s">>)
              => /\ plugin.hook = "fatal"
                 /\ error.kind = "requires Vite 2.0.0 or higher"
        /\ (\E i \in DOMAIN config.plugins :
               config.plugins[i] = <<"v", "i", "t", "e", ":", "b", "u", "i", "l", "d", "-", "i", "m", "p", "o", "r", "t", "-", "a", "n", "a", "l", "y", "s", "i", "s">>)
              => /\ plugin.hook # "fatal"
                 /\ error.kind # "requires Vite 2.0.0 or higher"

\* configResolved has raised the error for a list of other plugins only
C20_Witness_OnlyOtherPlugins ==
    /\ plugin.hook = "fatal"
    /\ config.plugins = << <<"s", "o", "m", "e", "-", "o", "t", "h", "e", "r", "-", "p", "l", "u", "g", "i", "n">> >>
    /\ error.kind = "requires Vite 2.0.0 or higher"

----------------------------------------------------------------------------
\* a fetch of the transform of the last HTML asset is still awaited
InFlightNow == \E k \in DOMAIN tasks : tasks[k].st \in {"head", "get"}

(* C21: once the build has ended, with or without a failed HTML asset, the
   verdict cache and the content cache hold no URL, so that the next build
   of the same plugin instance asks the network again for every URL. *)
C21_CachesEmptyAfterBuild ==
    plugin.hook = "generated" =>
        /\ urlSupportCache = EmptyCache
        /\ resourceCache = EmptyCache

\* what holds: clearAll leaves both caches empty, and they stay empty unless
\* the transform of the last asset was rejected while a fetch of another of
\* its tags was awaited
CachesEmptyUnlessRejectedInFlight ==
    /\ [][plugin'.hook = "generated" /\ plugin.hook # "generated"
            => urlSupportCache' = EmptyCache /\ resourceCache' = EmptyCache]_vars
    /\ [](plugin.hook = "generated" /\ pc # "rejected"
            => urlSupportCache = EmptyCache /\ resourceCache = EmptyCache)

\* what holds of the write-stage variant: no callback rejects, writeBundle
\* always reaches its last two lines, and nothing is awaited by then
WriteStageCachesCleared ==
    plugin.hook = "written" =>
        /\ plugin.sriCache = EmptyCache
        /\ plugin.htmlFiles = <<>>
        /\ ~InFlightNow

----------------------------------------------------------------------------
\* the methods of a list of calls
RECURSIVE methodsOf(_)
methodsOf(calls) ==
    IF calls = <<>> THEN <<>> ELSE <<Head(calls).method>> \o methodsOf(Tail(calls))

\* the rank of a level name: silent 0 < error < warn < info < debug, and
\* that of warn for any other name
rank(name) == IF name \in DOMAIN levels THEN levels[name] ELSE levels["warn"]

AllowedAt(name, method) == rank(method) <= rank(name)
Allowed(method) == AllowedAt(logger.logLevel, method)

(* C22: a Logger of level L prints a message of severity S exactly when
   rank(S) <= rank(L); a Logger of level silent prints nothing, one with a
   level name it does not know prints what a Logger of level warn prints. *)
C22_LoggerLevels ==
    methodsOf(console) = SelectSeq(methodsOf(got), Allowed)

\* what holds: silent is taken for warn (its rank 0 is falsy), and a level
\* name found on Object.prototype prints nothing
AllowedByCurrentLevel(method) ==
    IF logger.logLevel = "silent" THEN AllowedAt("warn", method)
    ELSE IF logger.logLevel \in Inherited THEN FALSE
    ELSE AllowedAt(logger.logLevel, method)
LoggerLevelsButSilent ==
    methodsOf(console) = SelectSeq(methodsOf(got), AllowedByCurrentLevel)

----------------------------------------------------------------------------
\* the changes of the resolved tags, in the order of the tasks
okChanges(ts) == Concat([p \in 1..3 |-> patternChanges(ts, PatternNames[p])])

\* the list cs in every order
Orderings(cs) ==
    {[i \in 1..Len(cs) |-> cs[p[i]]] : p \in Permutations(1..Len(cs))}

\* the digest a resolved tag has by its url alone: of the bytes the server
\* has for an external url, of the bundle entry for an internal one
DigestFor(url) ==
    IF IsExternal(url)
    THEN hashSource(RemoteBody(url), options.hashAlgorithm).integrity
    ELSE calculateInternal(bundle, htmlPath, url, options, config).integrity

(* C23: the string transformHTML returns does not depend on the order in
   which the resolutions of the tags complete: the digest of a resolved tag
   is that of its url, however it was come by, and in whatever order the
   changes reach applyIntegrityChanges the result is the returned string. *)
C23_CompletionOrderDoesNotMatter ==
    (Done /\ validateHtmlInput(html)) =>
        /\ \A k \in DOMAIN tasks :
              tasks[k].st = "ok" => tasks[k].integrity = DigestFor(tasks[k].url)
        /\ \A cs \in Orderings(okChanges(tasks)) :
              applyIntegrityChanges(html, cs).html = out

\* an external script and a stylesheet of the bundle, found by different
\* patterns, have both been resolved and spliced in
C23_Witness_TwoPatterns ==
    /\ Done
    /\ Len(tasks) = 2
    /\ tasks[1].pattern # tasks[2].pattern
    /\ \A k \in {1, 2} : tasks[k].st = "ok" /\ tasks[k].position \in applied
    /\ \E k \in {1, 2} : tasks[k].cors = "star"

----------------------------------------------------------------------------
\* checkResourceSupport has returned true for the task t
VerdictTrue(t) ==
    \/ t.cors = "star"
    \/ t.cors = "cached" /\ t.why # "cors"

\* checkResourceSupport has returned a falsy verdict for the task t
VerdictFalse(t) == t.why = "cors"

\* the task k issues its first GET in this step
IssuesGet(k) ==
    /\ tasks'[k].st = "get"
    /\ k \in DOMAIN tasks => tasks[k].st # "get"

(* C24: calculateIntegrity checks the bypass domains before it calls the
   network, and issues the GET for a url only after checkResourceSupport
   has returned true for it, be it from a HEAD response or from the verdict
   cache; after a false verdict the resolution issues no GET. *)
C24_ChecksInOrder ==
    [][/\ \A q \in requests' :
             ~isUrlFromBypassDomain(q.url, options.bypassDomains)
       /\ \A k \in DOMAIN tasks' :
             /\ IssuesGet(k) =>
                   /\ cacheHas(urlSupportCache', tasks'[k].url)
                   /\ urlSupportCache'[tasks'[k].url] = "true"
                   /\ [method |-> "GET", url |-> tasks'[k].url] \in requests'
             /\ tasks'[k].st = "get" => VerdictTrue(tasks'[k])
       /\ \A k \in DOMAIN tasks :
             (VerdictFalse(tasks[k]) /\ pass' = pass) => tasks'[k] = tasks[k]
      ]_vars

\* in the second call the verdict of the url comes from the cache, and the
\* GET, which failed in the first call, is issued again
C24_Witness_GetAfterCachedVerdict ==
    /\ pass = 2
    /\ \E k \in DOMAIN tasks :
          /\ tasks[k].st = "get"
          /\ tasks[k].cors = "cached"
          /\ [method |-> "GET", url |-> tasks[k].url] \in requests

----------------------------------------------------------------------------
\* the resolutions j and k got the same answers: the same outcome of the
\* HEAD requests, and no GET failed for one only
SameAnswers(j, k) ==
    /\ tasks[j].cors = tasks[k].cors
    /\ (tasks[j].why = "fetch") = (tasks[k].why = "fetch")

\* both have come to their end
BothEnded(j, k) ==
    /\ tasks[j].st \notin {"head", "get"}
    /\ tasks[k].st \notin {"head", "get"}

(* C25: two tags with the same external url, resolved concurrently and
   answered alike by the server, end with the same result in every
   interleaving; when that is a digest, it is the digest of the bytes the
   server has, the verdict cache holds true for the url and the content
   cache holds those bytes, as after a sequential run. *)
C25_SameUrlConcurrently ==
    \A j, k \in DOMAIN tasks :
        (/\ j # k
         /\ tasks[j].url = tasks[k].url
         /\ IsExternal(tasks[j].url)
         /\ BothEnded(j, k)
         /\ SameAnswers(j, k))
            => /\ tasks[j].st = tasks[k].st
               /\ tasks[j].integrity = tasks[k].integrity
               /\ tasks[j].st = "ok" =>
                     /\ tasks[j].integrity = DigestFor(tasks[j].url)
                     /\ cacheHas(urlSupportCache, tasks[j].url)
                     /\ urlSupportCache[tasks[j].url] = "true"
                     /\ resourceHas(resourceCache, tasks[j].url)
                     /\ resourceCache[tasks[j].url] = RemoteBody(tasks[j].url)

\* both tags of the same external script have been resolved with a digest
C25_Witness_BothResolved ==
    /\ Len(tasks) = 2
    /\ tasks[1].url = tasks[2].url
    /\ IsExternal(tasks[1].url)
    /\ tasks[1].st = "ok" /\ tasks[2].st = "ok"
    /\ tasks[1].cors = "star" /\ tasks[2].cors = "star"

----------------------------------------------------------------------------
\* what get(key) gives now, and what has(key) gives now
getNow(key) == get(items, key, now)
hasNow(key) == has(items, key, now)

\* the entry of key is there and the time is not past its expiry
Fresh(key) == key \in DOMAIN items.cache /\ now <= items.cache[key].expiry

\* this step is the call of op on key: a call leaves the clock alone and
\* leaves its name and key in got
Called(op, key) == now' = now /\ got'.op = op /\ got'.key = key

(* C26: the expiry of an entry is the time of its last set plus ttl; get
   returns the stored value as long as the time is not past the expiry; the
   first read after that returns undefined and removes the entry, and from
   then on has is false for the key until it is set again. *)
C26_ResourceCacheExpiry ==
    /\ [](\A key \in Keys :
            /\ Fresh(key) =>
                  /\ getNow(key).value = items.cache[key].value
                  /\ getNow(key).cache = items.cache
            /\ ~Fresh(key) =>
                  /\ getNow(key).value = "undefined"
                  /\ key \notin DOMAIN getNow(key).cache
                  /\ ~hasNow(key).held
                  /\ key \notin DOMAIN hasNow(key).cache)
    /\ [][\A key \in Keys :
            /\ Called("set", key) =>
                  items'.cache[key] = [value |-> got'.value,
                                       expiry |-> now + items.ttl]
            /\ (key \in DOMAIN items'.cache /\ ~Called("set", key))
                  => /\ key \in DOMAIN items.cache
                     /\ items'.cache[key] = items.cache[key]
            /\ ((Called("get", key) \/ Called("has", key)) /\ ~Fresh(key))
                  => key \notin DOMAIN items'.cache
       ]_vars

\* a get after the expiry has returned undefined and removed the entry
C26_Witness_ExpiredRead ==
    /\ got.op = "get"
    /\ got.removed
    /\ got.value = "undefined"
    /\ got.key \notin DOMAIN items.cache
    /\ now > items.ttl

----------------------------------------------------------------------------
\* newTag is tag with text put in before its closing '>', an integrity
\* attribute among it
AddsOnly(tag, newTag) ==
    /\ Len(newTag) > Len(tag)
    /\ slice(newTag, 0, Len(tag) - 1) = slice(tag, 0, Len(tag) - 1)
    /\ includes(slice(newTag, Len(tag) - 1, Len(newTag)), <<" ", "i", "n", "t", "e", "g", "r", "i", "t", "y", "=", "\"">>)
    /\ endsWith(newTag, <<">">>)

(* C27: in the write-stage variant every tag that writeBundle rewrites
   becomes its own text with attributes added before the closing '>', all
   it had being kept; so too when the url was met in an earlier HTML file,
   in a tag written differently, and the result comes from sriCache. *)
C27_WriteStageOnlyAddsAttributes ==
    \A k \in DOMAIN tasks :
        tasks[k].update.ok => AddsOnly(tasks[k].tag, tasks[k].update.newTag)

\* what holds: a tag rewritten from a digest just computed is its own text
\* with the attributes added; a tag whose url is in sriCache is replaced by
\* the rewritten tag of the file that met the url first
WriteStageAddsUnlessCached ==
    \A k \in DOMAIN tasks :
        tasks[k].update.ok =>
            IF tasks[k].why = "cached"
            THEN \E f \in DOMAIN files : includes(files[f].source, tasks[k].update.newTag)
            ELSE AddsOnly(tasks[k].tag, tasks[k].update.newTag)

----------------------------------------------------------------------------
\* content that is missing or empty: an absent field, the empty string, a
\* byte array of length 0
EmptyContent(content) == content.kind \in {"empty", "undefined"} \/ content = NoBytes

\* the task k refers to the bundle entry e, and nothing was done about it:
\* no digest, no attribute, no missing-asset warning or error
LeftAlone(k) ==
    /\ tasks[k].st = "null"
    /\ tasks[k].integrity = <<>>
    /\ Done => OutTag(k) = InTag(k)
    /\ Warn("Asset not found in bundle", tasks[k].url) \notin log
    /\ ~(error.kind = "throw_missing" /\ error.url = tasks[k].url)

EntryOfTask(k) == calculateInternal(bundle, htmlPath, tasks[k].url, options, config).used

(* C28: a tag whose bundle entry has no content or empty content (a chunk
   without code, an asset whose source is empty) is left as it is: no
   digest is computed and no integrity attribute added, and no
   missing-asset warning or error comes of it. *)
C28_EmptyContentLeftAlone ==
    \A k \in DOMAIN tasks :
        (/\ InternalReference(tasks[k].url)
         /\ EntryOfTask(k) > 0
         /\ EmptyContent(bundle[EntryOfTask(k)].content))
            => LeftAlone(k)

\* what holds: so it is for an absent field and for the empty string, the
\* contents that !source takes for nothing
FalsyContentLeftAlone ==
    \A k \in DOMAIN tasks :
        (/\ InternalReference(tasks[k].url)
         /\ EntryOfTask(k) > 0
         /\ Falsy(bundle[EntryOfTask(k)].content))
            => LeftAlone(k)

----------------------------------------------------------------------------
\* the greatest position of ps
Greatest(S) == CHOOSE x \in S : \A y \in S : x >= y

\* the integrity attribute of the task spliced at position p
IntegrityAt(p) == tasks[CHOOSE k \in Spliced : tasks[k].position = p].integrity

\* an integrity attribute string: a space, integrity=" , the value, "
AttributeString(v) == <<" ", "i", "n", "t", "e", "g", "r", "i", "t", "y", "=", "\"">> \o v \o <<"\"">>

\* s without the attribute strings spliced at the positions ps, the one
\* furthest in the document first
RECURSIVE Unspliced(_, _)
Unspliced(s, ps) ==
    IF ps = {} THEN s
    ELSE Unspliced(
            slice(s, 0, Shift(Greatest(ps)))
            \o substring(s, Shift(Greatest(ps))
                             + Len(AttributeString(IntegrityAt(Greatest(ps))))),
            ps \ {Greatest(ps)})

(* C29: transformHTML only inserts text.  The string it returns is the
   given one with integrity attribute strings spliced in: at each spliced
   position stands ' integrity="..."' with the digest of the tag's
   resource, and with those strings removed the returned string is the
   given one, character for character. *)
C29_OnlyInsertsText ==
    Done =>
        /\ \A p \in applied :
              slice(out, Shift(p), Shift(p) + Len(AttributeString(IntegrityAt(p))))
                  = AttributeString(IntegrityAt(p))
        /\ Unspliced(out, applied) = html
        /\ applied = {} => out = html

\* a returned document with two attributes spliced in
C29_Witness_TwoSplices ==
    /\ Done
    /\ Cardinality(applied) >= 2
    /\ Len(out) > Len(html)

----------------------------------------------------------------------------
\* the check of task k ended without any HEAD having got a response
CheckFailed(k) ==
    /\ tasks[k].st = "null"
    /\ tasks[k].why = "cors"
    /\ tasks[k].cors = "failed"

(* C30: checkResourceSupport terminates.  On a cache miss it makes at most
   3 HEAD attempts, the first and 2 retries; a timeout ends it at once,
   without a retry; only an error other than a timeout is retried, and the
   cache is not written in between; and when it ends without a response it
   returns false and records false for the URL in the verdict cache. *)
C30_CheckAttempts ==
    [][\A k \in DOMAIN tasks, r \in HeadResults :
          HeadReturns(k, r) =>
              /\ tasks[k].attempt + 1 <= 3
              /\ r.kind = "abort" => tasks'[k].st # "head"
              /\ tasks[k].attempt + 1 = 3 => tasks'[k].st # "head"
              /\ IF tasks'[k].st = "head"
                 THEN /\ r.kind = "error"
                      /\ tasks'[k].attempt = tasks[k].attempt + 1
                      /\ urlSupportCache' = urlSupportCache
                 ELSE r.kind # "response" =>
                      /\ tasks'[k].st = "null"
                      /\ tasks'[k].why = "cors"
                      /\ tasks'[k].cors = "failed"
                      /\ tasks'[k].integrity = <<>>
                      /\ cacheHas(urlSupportCache', tasks[k].url)
                      /\ urlSupportCache'[tasks[k].url] = "false"]_vars

\* a check given up after three failed attempts, false in the cache
C30_Witness_ThreeAttemptsFailed ==
    \E k \in DOMAIN tasks :
        /\ CheckFailed(k)
        /\ tasks[k].attempt = 2
        /\ cacheHas(urlSupportCache, tasks[k].url)
        /\ urlSupportCache[tasks[k].url] = "false"
====
